---- MODULE Spec2Model ----
(***************************************************************************)
(* A model of the llm-rpg world server (the richer server variant with     *)
(* energy, conversation fatigue and day/night): the leveling functions,    *)
(* the world clock, the turn gate and the action handler.                  *)
(*                                                                         *)
(* The durable store is modelled by the variables tick/isNight (the world  *)
(* row), chars (the characters table) and rel (the relationships table).   *)
(* The append-only tables (activity_log, conversations, memories) and the  *)
(* broadcast channel are modelled by what the last step appended to them.  *)
(***************************************************************************)
EXTENDS Integers, Sequences, FiniteSets, TLC

VARIABLES
  tick,      \* world.tick
  isNight,   \* world.is_night
  chars,     \* characters table: id -> row
  rel,       \* relationships table: <<char1_id, char2_id>> -> row or NoRow
  resp,      \* the HTTP response of the request handled last
  logged,    \* rows the last step appended to the append-only tables
  bcast,     \* events the last step pushed to the broadcast channel
  reqs,      \* requests in flight (the interleaved specification)
  accepted,  \* history: per actor, the ticks of its accepted actions (last two)
  lvl        \* input and output of the leveling function (the leveling specification)

vars == <<tick, isNight, chars, rel, resp, logged, bcast, reqs, accepted, lvl>>

-----------------------------------------------------------------------------
(* Bounds of the model *)

\* largest total XP the leveling specification tries
MaxXp == 1400
\* the world row's width and height (the model's world is small)
Width == 4
Height == 2
\* number of clock ticks explored after each starting tick
Horizon == 2
\* largest XP the award specification lets an actor reach
MaxAwardXp == 270
\* number of requests that can be in flight at once (the interleaved specification)
MaxInFlight == 2
\* number of clock ticks the interleaved specification explores
RaceTicks == 1
\* number of clock ticks the fatigue specification explores
FatigueTicks == 47
\* the failing store: it fails requests of an actor only while the actor's xp
\* is below MaxFaultXp and it has spent the energy of fewer than MaxFaultTalks talks
MaxFaultXp == 2
MaxFaultTalks == 2
\* number of clock ticks the specification with the failing store explores
FaultTicks == 1
\* number of clock ticks the day/night specification explores: two days and nights
DayNightTicks == 510
\* number of clock ticks the talk XP specification explores
TalkXpTicks == 12
\* number of clock ticks the specification with registrations explores
SettingsTicks == 1
\* ticks the life-story specification runs from each of its starting ticks
MomentTicks == 60
\* number of clock ticks the specification of the crowd explores
CrowdTicks == 2
\* number of clock ticks the specification of registrations and moves explores
RegisterTicks == 1
\* XP up to which a character keeps moving in that specification
MaxRegisterXp == 3
\* characters the specification of concurrent registrations lets in
MaxRegistered == 2
\* number of clock ticks the specification of overlapping first meetings explores
MeetTicks == 2
\* largest total XP the specification of overlapping awards tries
MaxOverlapXp == 105
\* tick at which the clock of the liveness specifications stops
LiveTicks == 6
\* tick at which the clock of the specification of cooling pairs stops
CoolingTicks == 710

-----------------------------------------------------------------------------
(* Program constants *)

XP_REWARDS ==
  [move |-> 1, talk |-> 5, examine |-> 2, interact |-> 10, first_meeting |-> 20]

\* const energyCost = 3
energyCost == 3
\* newExchangeCount >= 15 ? tick + 30 : 0
ExchangeCeiling == 15
CooldownTicks == 30
\* talk: ABS(x - $2) <= 2; examine: <= 3; interact: <= 2
TalkRadius == 2
ExamineRadius == 3
InteractRadius == 2
\* worldTick: day_length || 200, night_length || 50
DayLength == 200
NightLength == 50
\* worldTick: tick % 10, last_action_tick < tick - 20, energy + 5
RegenEvery == 10
RegenIdle == 20
RegenAmount == 5
\* worldTick: tick % 50, recent_exchanges - 3
DecayEvery == 50
DecayStep == 3
\* worldTick: tick % 100
EventEvery == 100
\* addSignificantMoment: 50 moments, every 10, 5000 / 4000 characters
MaxMoments == 50
StoryEvery == 10
StoryCap == 5000
StoryKeep == 4000
\* interact: cottage 50, other rest spots 30, rest XP 2
CottageRest == 50
OtherRest == 30
RestXp == 2
\* INSERT INTO characters (... energy, max_energy) VALUES (... 100, 100)
StartEnergy == 100
\* INSERT INTO relationships ... VALUES ($1, $2, 5, 1, $3, $3, 1, 0)
FirstSentiment == 5
MaxSentiment == 100

-----------------------------------------------------------------------------
(* Small helpers *)

RECURSIVE Pow(_, _)
Pow(b, e) == IF e = 0 THEN 1 ELSE b * Pow(b, e - 1)

Min(a, b) == IF a <= b THEN a ELSE b
Max(a, b) == IF a >= b THEN a ELSE b
Abs(n) == IF n < 0 THEN -n ELSE n

\* number of decimal digits of a non-negative integer (the length of `${tick}`)
RECURSIVE Digits(_)
Digits(n) == IF n < 10 THEN 1 ELSE 1 + Digits(n \div 10)

RECURSIVE SumSeq(_)
SumSeq(s) == IF s = <<>> THEN 0 ELSE Head(s) + SumSeq(Tail(s))

\* JavaScript's seq.slice(-n)
MutLastN(s, n) == IF Len(s) <= n THEN s ELSE SubSeq(s, 1, n)
LastN(s, n) == IF Len(s) <= n THEN s ELSE SubSeq(s, Len(s) - n + 1, Len(s))

-----------------------------------------------------------------------------
(* Leveling system *)

\* Math.floor(100 * Math.pow(1.5, level - 1)); 1.5^k = 3^k / 2^k is exact in a
\* double for every level the model reaches, so the floor is integer division.
xpForLevel(level) == (100 * Pow(3, level - 1)) \div Pow(2, level - 1)

\* the loop test of calculateLevel
MutLevelCovers(xpAccumulated, xpNeeded, totalXp) == xpAccumulated + xpNeeded < totalXp
LevelCovers(xpAccumulated, xpNeeded, totalXp) == xpAccumulated + xpNeeded <= totalXp

\* the while loop of calculateLevel, from the state (level, xpAccumulated)
RECURSIVE CalcLoop(_, _, _)
CalcLoop(level, xpAccumulated, totalXp) ==
  IF LevelCovers(xpAccumulated, xpForLevel(level), totalXp)
    THEN CalcLoop(level + 1, xpAccumulated + xpForLevel(level), totalXp)
    ELSE [level |-> level,
          currentLevelXp |-> totalXp - xpAccumulated,
          xpToNextLevel |-> xpForLevel(level),
          totalXp |-> totalXp]

calculateLevel(totalXp) == CalcLoop(1, 0, totalXp)

\* 100 + (levelInfo.level - 1) * 10
MaxHpOf(level) == 100 + (level - 1) * 10

\* the heal on level up: UPDATE characters SET hp = max_hp
MutHealOnLevelUp(row) == row
HealOnLevelUp(row) == [row EXCEPT !.hp = row.maxHp]

\* UPDATE characters SET xp = $1, level = $2, max_hp = $3
WriteXp(row, newXp, level) ==
  [row EXCEPT !.xp = newXp, !.level = level, !.maxHp = MaxHpOf(level)]

\* const newXp = me.xp + amount
MutNewXpOf(xp, amount) == amount
NewXpOf(xp, amount) == xp + amount

\* awardXp(charId, amount, reason) run against the characters table cs: the new
\* table, the activity-log rows and broadcasts it adds and the value it returns.
awardXp(cs, charId, amount) ==
  LET me == cs[charId]
      oldLevel == me.level
      newXp == NewXpOf(me.xp, amount)
      levelInfo == calculateLevel(newXp)
      written == WriteXp(me, newXp, levelInfo.level)
  IN IF levelInfo.level > oldLevel
       THEN [chars |-> [cs EXCEPT ![charId] = HealOnLevelUp(written)],
             logged |-> << [table |-> "activity_log", tick |-> tick, character |-> charId,
                            action |-> "level_up"] >>,
             bcast |-> << [event |-> "level_up", id |-> charId,
                           newLevel |-> levelInfo.level,
                           maxHp |-> MaxHpOf(levelInfo.level)] >>,
             ret |-> [leveledUp |-> TRUE, xpGained |-> amount]]
       ELSE [chars |-> [cs EXCEPT ![charId] = written],
             logged |-> <<>>,
             bcast |-> <<>>,
             ret |-> [leveledUp |-> FALSE, xpGained |-> amount]]

-----------------------------------------------------------------------------
(* Life story *)

\* character names and the length of each (the moment texts embed them)
NameOf(id) == id
\* a name as long as characters.name VARCHAR(100) allows
LongName == "a name of one hundred characters"
NameLen(id) == CASE id = "alice" -> 5 [] id = "bob" -> 3 [] id = LongName -> 100
                 [] OTHER -> 4

\* MOMENT_TRIGGERS.first_meeting(name) = `Met ${name} for the first time`
FirstMeetingMoment(name) == [kind |-> "first_meeting", about |-> name]
\* the length of a moment's text
MomentLen(m) == 4 + NameLen(m.about) + 19

\* the life story after the periodic summary: lifeStory (a length) grows by
\* `\n\n[After ${tick} ticks] ` and the last 10 moments joined by '. ', and is
\* cut to its last 4000 characters once longer than 5000
Grown(lifeStory, moments) ==
  LET recent == LastN(moments, StoryEvery)
      joined == SumSeq([i \in 1..Len(recent) |-> MomentLen(recent[i].moment)])
                  + 2 * (Len(recent) - 1)
  IN lifeStory + 2 + 7 + Digits(tick) + 8 + joined

MutSummarize(lifeStory, moments) == Grown(lifeStory, moments)
Summarize(lifeStory, moments) ==
  LET grown == Grown(lifeStory, moments)
  IN IF grown > StoryCap THEN StoryKeep ELSE grown

\* addSignificantMoment(charId, moment, category) against the characters table cs
addSignificantMoment(cs, charId, moment, category) ==
  LET me == cs[charId]
      pushed == Append(me.moments,
                       [tick |-> tick, category |-> category, moment |-> moment])
      moments == IF Len(pushed) > MaxMoments THEN LastN(pushed, MaxMoments) ELSE pushed
      lifeStory == IF Len(moments) % StoryEvery = 0
                     THEN Summarize(me.lifeStory, moments)
                     ELSE me.lifeStory
  IN [cs EXCEPT ![charId] = [me EXCEPT !.moments = moments, !.lifeStory = lifeStory]]

-----------------------------------------------------------------------------
(* The world of the model: characters and static objects *)

Actors == {"alice", "bob"}

NoOne == "none"

\* lower-cased text as a sequence of characters, so that LIKE '%target%' and
\* String.includes are computed and not assumed
campfireText == <<"c", "a", "m", "p", "f", "i", "r", "e">>
cottageText == <<"c", "o", "t", "t", "a", "g", "e">>
pondText == <<"p", "o", "n", "d">>
signText == <<"s", "i", "g", "n">>
signpostText == <<"s", "i", "g", "n", "p", "o", "s", "t">>
house1Text == <<"h", "o", "u", "s", "e", "1">>
riverText == <<"r", "i", "v", "e", "r">>
river1Text == <<"r", "i", "v", "e", "r", "1">>
zzzText == <<"z", "z", "z">>

\* s.includes(sub), also LIKE '%sub%'
includes(s, sub) ==
  \E i \in 0..(Len(s) - Len(sub)) : SubSeq(s, i + 1, i + Len(sub)) = sub

\* the objects table (static): a few rows of the default objects, placed in the
\* model's small world
Objects ==
  { [id |-> "campfire", lid |-> campfireText, lname |-> campfireText,
     x |-> 0, y |-> 0, canInteract |-> TRUE, blocking |-> FALSE,
     interactResult |-> "You warm yourself by the fire."],
    [id |-> "house1", lid |-> house1Text, lname |-> cottageText,
     x |-> Width - 1, y |-> 0, canInteract |-> TRUE, blocking |-> FALSE,
     interactResult |-> "You knock. No answer, but you hear movement inside."],
    [id |-> "pond", lid |-> pondText, lname |-> pondText,
     x |-> 0, y |-> Height - 1, canInteract |-> TRUE, blocking |-> FALSE,
     interactResult |-> "You drink the cool water. Refreshing!"],
    [id |-> "sign", lid |-> signText, lname |-> signpostText,
     x |-> Width - 1, y |-> Height - 1, canInteract |-> TRUE, blocking |-> FALSE,
     interactResult |-> "The sign points to the meadow."],
    [id |-> "river1", lid |-> river1Text, lname |-> riverText,
     x |-> 1, y |-> 1, canInteract |-> FALSE, blocking |-> TRUE,
     interactResult |-> "NULL"] }

NoObject ==
  [id |-> "none", lid |-> <<>>, lname |-> <<>>, x |-> 0, y |-> 0,
   canInteract |-> FALSE, blocking |-> FALSE, interactResult |-> "NULL"]

\* SELECT * FROM objects WHERE x = $1 AND y = $2 AND blocking = true
BlockingAt(x, y) == {o \in Objects : o.x = x /\ o.y = y /\ o.blocking}

\* a relationships row; NoRow stands for the absence of the row
NoRow ==
  [exists |-> FALSE, sentiment |-> 0, interactions |-> 0,
   recentExchanges |-> 0, cooldownUntilTick |-> 0]

Pairs == {p \in Actors \X Actors : p[1] # p[2]}

NoResp ==
  [actor |-> NoOne, action |-> "none", status |-> "none", listener |-> NoOne,
   ticksLeft |-> 0, exchangeCount |-> 0, xpGained |-> 0, result |-> ""]

-----------------------------------------------------------------------------
(* Turn gate *)

\* canAct: (tick - last_action_tick) >= turn_interval, read in one query
MutCanAct(charId) ==
  (tick - chars[charId].lastActionTick) > chars[charId].turnInterval
canAct(charId) ==
  (tick - chars[charId].lastActionTick) >= chars[charId].turnInterval

\* updateLastAction: last_action_tick = the world's tick at that moment
MutStampAhead(cs, charId) ==
  [cs EXCEPT ![charId].lastActionTick = tick + 1000]
MutUpdateLastAction(cs, charId) ==
  [cs EXCEPT ![charId].lastActionTick = @ + cs[charId].turnInterval]
updateLastAction(cs, charId) == [cs EXCEPT ![charId].lastActionTick = tick]

-----------------------------------------------------------------------------
(* Action handler: POST /api/action/:charId                                *)
(* Each do* operator is one case of the handler's switch. me is the row    *)
(* the handler read at authentication, wt the tick of its world read; the  *)
(* tables it reads and writes are the current chars and rel. The result    *)
(* holds the response and the new tables, rows and events.                 *)

MutRejected(charId, action, status, ticksLeft) ==
  [resp |-> [NoResp EXCEPT !.actor = charId, !.action = action, !.status = status,
                           !.ticksLeft = ticksLeft],
   chars |-> [chars EXCEPT ![charId].lastActionTick = tick],
   rel |-> rel, logged |-> <<>>, bcast |-> <<>>]
Rejected(charId, action, status, ticksLeft) ==
  [resp |-> [NoResp EXCEPT !.actor = charId, !.action = action, !.status = status,
                           !.ticksLeft = ticksLeft],
   chars |-> chars, rel |-> rel, logged |-> <<>>, bcast |-> <<>>]

ActivityRow(wt, charId, action) ==
  [table |-> "activity_log", tick |-> wt, character |-> charId, action |-> action]

\* const dirs = { north: [0, -1], south: [0, 1], east: [1, 0], west: [-1, 0] }
dirs ==
  [north |-> <<0, -1>>, south |-> <<0, 1>>, east |-> <<1, 0>>, west |-> <<-1, 0>>]

\* newX < 0 || newX >= width || newY < 0 || newY >= height
MutOutOfBounds(newX, newY) == newX < 0 \/ newX > Width \/ newY < 0 \/ newY > Height
OutOfBounds(newX, newY) == newX < 0 \/ newX >= Width \/ newY < 0 \/ newY >= Height

doMove(charId, me, wt, direction) ==
  IF direction \notin DOMAIN dirs
    THEN Rejected(charId, "move", "InvalidDirection", 0)
    ELSE
      LET delta == dirs[direction]
          newX == me.x + delta[1]
          newY == me.y + delta[2]
      IN IF OutOfBounds(newX, newY)
           THEN Rejected(charId, "move", "OutOfBounds", 0)
         ELSE IF BlockingAt(newX, newY) # {}
           THEN Rejected(charId, "move", "Blocked", 0)
         ELSE
           LET moved == [chars EXCEPT ![charId].x = newX, ![charId].y = newY]
               xp == awardXp(moved, charId, XP_REWARDS.move)
           IN [resp |-> [NoResp EXCEPT !.actor = charId, !.action = "move",
                                       !.status = "ok", !.xpGained = xp.ret.xpGained],
               chars |-> xp.chars,
               rel |-> rel,
               logged |-> <<ActivityRow(wt, charId, "move")>> \o xp.logged,
               bcast |-> <<[event |-> "move", id |-> charId, x |-> newX, y |-> newY]>>
                           \o xp.bcast]

\* const currentEnergy = me.energy || 100: JavaScript's || takes the right side
\* for every falsy left side, 0 included
EnergyOrDefault(energy) == IF energy = 0 THEN 100 ELSE energy

\* the rows of the nearby query before ORDER BY ... LIMIT 1
Nearby(charId, me) ==
  {c \in (DOMAIN chars) \ {charId} :
     /\ chars[c].isActive
     /\ Abs(chars[c].x - me.x) <= TalkRadius
     /\ Abs(chars[c].y - me.y) <= TalkRadius}

\* SQRT(POWER(x - $2, 2) + POWER(y - $3, 2)) orders as its square does
Dist2(c, me) ==
  (chars[c].x - me.x) * (chars[c].x - me.x) + (chars[c].y - me.y) * (chars[c].y - me.y)

\* the rows ORDER BY distance LIMIT 1 may return: SQL leaves the order of ties open
MutListeners(charId, me) == Nearby(charId, me)
Listeners(charId, me) ==
  {c \in Nearby(charId, me) : \A d \in Nearby(charId, me) : Dist2(c, me) <= Dist2(d, me)}

\* cooldownUntil > tick
InCooldown(cooldownUntil, wt) == cooldownUntil > wt

\* newExchangeCount >= 15 ? tick + 30 : 0
MutNewCooldownOf(newExchangeCount, wt) ==
  IF newExchangeCount > ExchangeCeiling THEN wt + CooldownTicks ELSE 0
NewCooldownOf(newExchangeCount, wt) ==
  IF newExchangeCount >= ExchangeCeiling THEN wt + CooldownTicks ELSE 0

\* INSERT INTO relationships ... ON CONFLICT (char1_id, char2_id) DO UPDATE ...
MutSentimentUpsert(row, newExchangeCount, newCooldown) ==
  IF row.exists
    THEN [row EXCEPT !.interactions = row.interactions + 1,
                     !.sentiment = row.sentiment + 1,
                     !.recentExchanges = newExchangeCount,
                     !.cooldownUntilTick = newCooldown]
    ELSE [exists |-> TRUE, sentiment |-> FirstSentiment, interactions |-> 1,
          recentExchanges |-> 1, cooldownUntilTick |-> 0]
MutUpsert(row, newExchangeCount, newCooldown) ==
  IF row.exists
    THEN [row EXCEPT !.interactions = row.interactions + 1,
                     !.sentiment = Min(MaxSentiment, row.sentiment + 1),
                     !.cooldownUntilTick = newCooldown]
    ELSE [exists |-> TRUE, sentiment |-> FirstSentiment, interactions |-> 1,
          recentExchanges |-> 1, cooldownUntilTick |-> 0]
Upsert(row, newExchangeCount, newCooldown) ==
  IF row.exists
    THEN [row EXCEPT !.interactions = row.interactions + 1,
                     !.sentiment = Min(MaxSentiment, row.sentiment + 1),
                     !.recentExchanges = newExchangeCount,
                     !.cooldownUntilTick = newCooldown]
    ELSE [exists |-> TRUE, sentiment |-> FirstSentiment, interactions |-> 1,
          recentExchanges |-> 1, cooldownUntilTick |-> 0]

\* the diminishing XP schedule of a talk
MutTalkXp(isFirstMeeting, newExchangeCount) ==
  IF newExchangeCount < 5 THEN XP_REWARDS.talk
  ELSE IF newExchangeCount < 10 THEN 2
  ELSE 0
TalkXp(isFirstMeeting, newExchangeCount) ==
  IF isFirstMeeting THEN XP_REWARDS.first_meeting
  ELSE IF newExchangeCount <= 5 THEN XP_REWARDS.talk
  ELSE IF newExchangeCount <= 10 THEN 2
  ELSE 0

\* if (isFirstMeeting) { addSignificantMoment(charId, ...); addSignificantMoment(listener.id, ...) }
FirstMeetingMoments(cs, charId, listener, isFirstMeeting) ==
  IF isFirstMeeting
    THEN addSignificantMoment(
           addSignificantMoment(cs, charId, FirstMeetingMoment(NameOf(listener)), "social"),
           listener, FirstMeetingMoment(NameOf(charId)), "social")
    ELSE cs

\* listener is the row the nearby query returned, NoOne if it returned none
\* SELECT recent_exchanges, cooldown_until_tick FROM relationships
\* WHERE char1_id = $1 AND char2_id = $2
MutRelCheck(charId, listener) ==
  IF rel[<<listener, charId>>].cooldownUntilTick > rel[<<charId, listener>>].cooldownUntilTick
    THEN rel[<<listener, charId>>]
    ELSE rel[<<charId, listener>>]
RelCheck(charId, listener) == rel[<<charId, listener>>]

\* relCheck is the row the fatigue check has read
doTalkWith(charId, me, wt, message, listener, relCheck) ==
  LET currentEnergy == EnergyOrDefault(me.energy)
      recentExchanges == relCheck.recentExchanges
      cooldownUntil == relCheck.cooldownUntilTick
  IN IF message = ""
       THEN Rejected(charId, "talk", "MessageRequired", 0)
     ELSE IF currentEnergy < energyCost
       THEN Rejected(charId, "talk", "InsufficientEnergy", 0)
     ELSE IF listener = NoOne
       THEN Rejected(charId, "talk", "NoTargetNearby", 0)
     ELSE IF InCooldown(cooldownUntil, wt)
       THEN [Rejected(charId, "talk", "ConversationCooldown", cooldownUntil - wt)
               EXCEPT !.resp.listener = listener]
     ELSE
       LET spent == [chars EXCEPT ![charId].energy = chars[charId].energy - energyCost]
           existingRel == rel[<<charId, listener>>]
           isFirstMeeting == ~existingRel.exists
           newExchangeCount == recentExchanges + 1
           newCooldown == NewCooldownOf(newExchangeCount, wt)
           newRel == [rel EXCEPT ![<<charId, listener>>] =
                        Upsert(existingRel, newExchangeCount, newCooldown)]
           met == FirstMeetingMoments(spent, charId, listener, isFirstMeeting)
           xpReward == TalkXp(isFirstMeeting, newExchangeCount)
           xp == IF xpReward > 0
                   THEN awardXp(met, charId, xpReward)
                   ELSE [chars |-> met, logged |-> <<>>, bcast |-> <<>>,
                         ret |-> [leveledUp |-> FALSE, xpGained |-> 0]]
       IN [resp |-> [NoResp EXCEPT !.actor = charId, !.action = "talk", !.status = "ok",
                                   !.listener = listener,
                                   !.exchangeCount = newExchangeCount,
                                   !.xpGained = xp.ret.xpGained],
           chars |-> xp.chars,
           rel |-> newRel,
           logged |-> << [table |-> "conversations", tick |-> wt, character |-> charId,
                          action |-> "talk"],
                         [table |-> "memories", tick |-> wt, character |-> charId,
                          action |-> "talk"],
                         [table |-> "memories", tick |-> wt, character |-> listener,
                          action |-> "talk"] >>
                       \o xp.logged \o <<ActivityRow(wt, charId, "talk")>>,
           bcast |-> xp.bcast \o <<[event |-> "talk", id |-> charId, listener |-> listener]>>]

\* case 'talk' with every statement run at once
doTalk(charId, me, wt, message, listener) ==
  doTalkWith(charId, me, wt, message, listener,
             IF listener = NoOne THEN NoRow ELSE RelCheck(charId, listener))

\* LOWER(name) LIKE '%target%' OR LOWER(id) LIKE '%target%', within radius
Matching(me, target, radius) ==
  {o \in Objects :
     /\ includes(o.lname, target) \/ includes(o.lid, target)
     /\ Abs(o.x - me.x) <= radius
     /\ Abs(o.y - me.y) <= radius}

\* the row a query with LIMIT 1 and no ORDER BY may return; NoObject if none
OneOf(rows) == IF rows = {} THEN {NoObject} ELSE rows

MutDoExamine(charId, me, wt, target, o) ==
  IF o = NoObject
    THEN Rejected(charId, "examine", "NoTargetNearby", 0)
    ELSE [resp |-> [NoResp EXCEPT !.actor = charId, !.action = "examine", !.status = "ok"],
          chars |-> awardXp(chars, charId, XP_REWARDS.examine).chars,
          rel |-> rel,
          logged |-> <<ActivityRow(wt, charId, "examine")>>,
          bcast |-> <<>>]
doExamine(charId, me, wt, target, o) ==
  IF o = NoObject
    THEN Rejected(charId, "examine", "NoTargetNearby", 0)
    ELSE [resp |-> [NoResp EXCEPT !.actor = charId, !.action = "examine", !.status = "ok"],
          chars |-> chars,
          rel |-> rel,
          logged |-> <<ActivityRow(wt, charId, "examine")>>,
          bcast |-> <<>>]

\* o.name.toLowerCase().includes('campfire') || ...('cottage') || ...('pond')
isRestSpot(o) ==
  includes(o.lname, campfireText) \/ includes(o.lname, cottageText)
    \/ includes(o.lname, pondText)

\* o.name.toLowerCase().includes('cottage') ? 50 : 30
MutEnergyRestored(o) == OtherRest
energyRestored(o) == IF includes(o.lname, cottageText) THEN CottageRest ELSE OtherRest

\* energy = LEAST(COALESCE(max_energy, 100), COALESCE(energy, 0) + $1)
RestEnergy(row, amount) ==
  [row EXCEPT !.energy = Min(row.maxEnergy, row.energy + amount)]

doInteract(charId, me, wt, target, o) ==
  IF o = NoObject
    THEN Rejected(charId, "interact", "NoTargetNearby", 0)
  ELSE IF isRestSpot(o)
    THEN
      LET rested == [chars EXCEPT ![charId] = RestEnergy(chars[charId], energyRestored(o))]
          xp == awardXp(rested, charId, RestXp)
      IN [resp |-> [NoResp EXCEPT !.actor = charId, !.action = "interact",
                                  !.status = "ok", !.xpGained = xp.ret.xpGained,
                                  !.result = "You rest and feel refreshed."],
          chars |-> xp.chars,
          rel |-> rel,
          logged |-> <<ActivityRow(wt, charId, "rest")>> \o xp.logged,
          bcast |-> <<[event |-> "rest", id |-> charId, object |-> o.id]>> \o xp.bcast]
  ELSE
    LET xp == awardXp(chars, charId, XP_REWARDS.interact)
    IN [resp |-> [NoResp EXCEPT !.actor = charId, !.action = "interact",
                                !.status = "ok", !.xpGained = xp.ret.xpGained,
                                !.result = o.interactResult],
        chars |-> xp.chars,
        rel |-> rel,
        logged |-> xp.logged \o <<ActivityRow(wt, charId, "interact")>>,
        bcast |-> xp.bcast \o <<[event |-> "interact", id |-> charId, object |-> o.id]>>]

\* the request bodies the model submits
Directions == {"north", "south", "east", "west"}
Targets == {<<>>, cottageText, zzzText}

MoveRequests ==
  [action : {"move"}, direction : Directions \cup {"up"}, message : {""}, target : {<<>>}]
TalkRequests ==
  [action : {"talk"}, direction : {""}, message : {"", "hello"}, target : {<<>>}]
ObjectRequests ==
  [action : {"examine", "interact"}, direction : {""}, message : {""}, target : Targets]
OtherRequests ==
  [action : {"dance"}, direction : {""}, message : {""}, target : {<<>>}]
Requests == MoveRequests \cup TalkRequests \cup ObjectRequests \cup OtherRequests

\* the switch (action) of the handler: every result it can produce for req
Handle(charId, me, wt, req) ==
  CASE req.action = "move" -> {doMove(charId, me, wt, req.direction)}
    [] req.action = "talk" ->
         {doTalk(charId, me, wt, req.message, l) :
            l \in (IF Listeners(charId, me) = {} THEN {NoOne} ELSE Listeners(charId, me))}
    [] req.action = "examine" ->
         {doExamine(charId, me, wt, req.target, o) :
            o \in OneOf(Matching(me, req.target, ExamineRadius))}
    [] req.action = "interact" ->
         {doInteract(charId, me, wt, req.target, o) :
            o \in OneOf({m \in Matching(me, req.target, InteractRadius) : m.canInteract})}
    [] OTHER -> {Rejected(charId, req.action, "UnknownActionKind", 0)}

\* the tokens of the characters table
TokenOf(charId) == <<"token", charId>>
BadToken == <<"token", NoOne>>

-----------------------------------------------------------------------------
(* The handler run as one step (requests handled one at a time) *)

Submit(charId, token, req) ==
  /\ UNCHANGED <<tick, isNight, reqs, accepted, lvl>>
  /\ IF token # TokenOf(charId)
       THEN /\ resp' = [NoResp EXCEPT !.actor = charId, !.action = req.action,
                                      !.status = "InvalidCharacterOrToken"]
            /\ logged' = <<>>
            /\ bcast' = <<>>
            /\ UNCHANGED <<chars, rel>>
     ELSE IF ~canAct(charId)
       THEN /\ resp' = [NoResp EXCEPT !.actor = charId, !.action = req.action,
                                      !.status = "NotYourTurn"]
            /\ logged' = <<>>
            /\ bcast' = <<>>
            /\ UNCHANGED <<chars, rel>>
     ELSE \E out \in Handle(charId, chars[charId], tick, req) :
            /\ resp' = out.resp
            /\ chars' = IF out.resp.status = "ok"
                          THEN updateLastAction(out.chars, charId)
                          ELSE out.chars
            /\ rel' = out.rel
            /\ logged' = out.logged
            /\ bcast' = out.bcast

-----------------------------------------------------------------------------
(* World clock *)

\* cyclePosition >= (day_length || 200)
MutShouldBeNight(t) == (t % (DayLength + NightLength)) > DayLength
shouldBeNight(t) == (t % (DayLength + NightLength)) >= DayLength

\* UPDATE characters SET energy = LEAST(max_energy, energy + 5)
\* WHERE last_action_tick < $1 - 20
Regen(cs, t) ==
  [c \in DOMAIN cs |->
     IF cs[c].lastActionTick < t - RegenIdle
       THEN [cs[c] EXCEPT !.energy = Min(cs[c].maxEnergy, cs[c].energy + RegenAmount)]
       ELSE cs[c]]

\* UPDATE relationships SET recent_exchanges = GREATEST(0, recent_exchanges - 3)
\* WHERE recent_exchanges > 0
MutDecayStuck(rl) ==
  [p \in Pairs |->
     IF rl[p].exists /\ rl[p].recentExchanges > 0
       THEN [rl[p] EXCEPT !.recentExchanges = Max(1, rl[p].recentExchanges - DecayStep)]
       ELSE rl[p]]
MutDecay(rl) ==
  [p \in Pairs |->
     IF rl[p].exists /\ rl[p].recentExchanges > 0 /\ rl[p].cooldownUntilTick = 0
       THEN [rl[p] EXCEPT !.recentExchanges = Max(0, rl[p].recentExchanges - DecayStep)]
       ELSE rl[p]]
Decay(rl) ==
  [p \in Pairs |->
     IF rl[p].exists /\ rl[p].recentExchanges > 0
       THEN [rl[p] EXCEPT !.recentExchanges = Max(0, rl[p].recentExchanges - DecayStep)]
       ELSE rl[p]]

\* UPDATE world SET tick = tick + 1 ... RETURNING tick
MutNextTick(t) == t
NextTick(t) == t + 1

worldTick ==
  LET t == NextTick(tick)
      night == shouldBeNight(t)
      turned == night # isNight
  IN /\ tick' = t
     /\ isNight' = night
     /\ chars' = IF t % RegenEvery = 0 THEN Regen(chars, t) ELSE chars
     /\ rel' = IF t % DecayEvery = 0 THEN Decay(rel) ELSE rel
     /\ resp' = [NoResp EXCEPT !.action = "tick"]
     /\ \E e \in (IF t % EventEvery = 0 THEN 1..5 ELSE {0}) :
          /\ logged' =
               (IF turned THEN <<[table |-> "activity_log", tick |-> t,
                                  character |-> NoOne, action |-> "world_event"]>>
                          ELSE <<>>)
               \o (IF t % EventEvery = 0
                     THEN <<[table |-> "activity_log", tick |-> t,
                             character |-> NoOne, action |-> "world_event",
                             message |-> <<night, e>>]>>
                     ELSE <<>>)
          /\ bcast' =
               (IF turned THEN <<[event |-> "day_night", tick |-> t, isNight |-> night]>>
                          ELSE <<>>)
               \o <<[event |-> "tick", tick |-> t, isNight |-> night]>>
               \o (IF t % EventEvery = 0
                     THEN <<[event |-> "event", tick |-> t, message |-> <<night, e>>]>>
                     ELSE <<>>)
     /\ UNCHANGED <<reqs, accepted, lvl>>

\* the statements of worldTick after the increment, in the order of the code
TickSteps == <<"isNight", "transitionLog", "regen", "decay", "event">>

StepIndex(step) == CHOOSE i \in 1..Len(TickSteps) : TickSteps[i] = step

\* the statement is run by the tick that brings the clock to t
StepDue(step, t) ==
  CASE step \in {"isNight", "transitionLog"} -> shouldBeNight(t) # isNight
    [] step = "regen" -> t % RegenEvery = 0
    [] step = "decay" -> t % DecayEvery = 0
    [] step = "event" -> t % EventEvery = 0

\* worldTick when the statement `failed` throws: the whole body is one try
\* block, so the statements before it have run and those after it are skipped
\* (catch (err) { console.error('Tick error:', err.message) })
worldTickFailing(failed) ==
  LET t == NextTick(tick)
      night == shouldBeNight(t)
      turned == night # isNight
      f == StepIndex(failed)
      Ran(step) == StepDue(step, t) /\ StepIndex(step) < f
  IN /\ StepDue(failed, t)
     /\ tick' = t
     /\ isNight' = IF Ran("isNight") THEN night ELSE isNight
     /\ chars' = IF Ran("regen") THEN Regen(chars, t) ELSE chars
     /\ rel' = IF Ran("decay") THEN Decay(rel) ELSE rel
     /\ resp' = [NoResp EXCEPT !.action = "tick", !.status = failed]
     /\ logged' = IF Ran("transitionLog")
                    THEN <<[table |-> "activity_log", tick |-> t,
                            character |-> NoOne, action |-> "world_event"]>>
                    ELSE <<>>
     /\ bcast' = (IF Ran("transitionLog")
                    THEN <<[event |-> "day_night", tick |-> t, isNight |-> night]>>
                    ELSE <<>>)
                 \o (IF f > StepIndex("transitionLog")
                       THEN <<[event |-> "tick", tick |-> t, isNight |-> night]>>
                       ELSE <<>>)
     /\ UNCHANGED <<reqs, accepted, lvl>>

-----------------------------------------------------------------------------
(* Initial states *)

\* a text of the request bodies: what it says, its length without the white
\* space around it, and the amount of that white space
Curious == [text |-> "curious and kind", len |-> 16, pad |-> 2]
Grumpy == [text |-> "grumpy", len |-> 6, pad |-> 0]
Verbose == [text |-> "a very long tale", len |-> 1200, pad |-> 0]

\* personality.trim()
Trim(p) == [text |-> p.text, len |-> p.len]
\* personality.slice(0, 1000)
Slice(p, n) == [text |-> p.text, len |-> Min(p.len + p.pad, n)]

\* origin_story || null
NoStory == "null"
\* a field of a request body is <<v>> when the body holds the value v, and
\* Undefined when the body does not hold the field
Undefined == <<>>
Given(v) == <<v>>

\* a characters row as registration inserts it (hp, max_hp, xp, level, energy,
\* max_energy, last_action_tick take their defaults), advanced to the given
\* energy, xp and last action tick
Character(x, y, energy, xp, lastActionTick, turnInterval) ==
  [x |-> x, y |-> y,
   hp |-> MaxHpOf(calculateLevel(xp).level),
   maxHp |-> MaxHpOf(calculateLevel(xp).level),
   xp |-> xp, level |-> calculateLevel(xp).level,
   energy |-> energy, maxEnergy |-> StartEnergy,
   turnInterval |-> turnInterval, lastActionTick |-> lastActionTick,
   isActive |-> TRUE, moments |-> <<>>, lifeStory |-> 0,
   personality |-> Trim(Curious), originStory |-> NoStory, traits |-> <<>>]

-----------------------------------------------------------------------------
(* Registration and character settings *)

\* turn_interval || 1
TurnIntervalOrDefault(turnInterval) ==
  IF turnInterval = Undefined \/ turnInterval = Given(0) THEN 1 ELSE turnInterval[1]

\* the tiles the spawn loop can end on: random tiles until one is not blocked
MutSpawnTiles == (0..(Width - 1)) \X (0..(Height - 1))
SpawnTiles ==
  {t \in (0..(Width - 1)) \X (0..(Height - 1)) : BlockingAt(t[1], t[2]) = {}}

\* the bodies of POST /api/register the model submits
RegisterBodies ==
  [name : Actors, personality : {Curious, Grumpy}, origin_story : {NoStory, "a foundling"},
   turn_interval : {Undefined, Given(2)}]

\* POST /api/register; the new character's id is its name (the random suffix
\* of the id is left out: a name is never registered twice)
Register(body) ==
  /\ UNCHANGED <<tick, isNight, rel, reqs, accepted, lvl>>
  /\ IF body.personality.len < 10
       THEN /\ resp' = [NoResp EXCEPT !.actor = body.name, !.action = "register",
                                      !.status = "PersonalityRequired"]
            /\ logged' = <<>>
            /\ bcast' = <<>>
            /\ UNCHANGED chars
     ELSE IF body.name \in DOMAIN chars
       THEN /\ resp' = [NoResp EXCEPT !.actor = body.name, !.action = "register",
                                      !.status = "DuplicateName"]
            /\ logged' = <<>>
            /\ bcast' = <<>>
            /\ UNCHANGED chars
     ELSE \E spawn \in SpawnTiles :
            LET row == [Character(spawn[1], spawn[2], StartEnergy, 0, 0,
                                  TurnIntervalOrDefault(body.turn_interval))
                          EXCEPT !.personality = Trim(body.personality),
                                 !.originStory = body.origin_story]
            IN /\ chars' = [c \in (DOMAIN chars) \cup {body.name} |->
                              IF c = body.name THEN row ELSE chars[c]]
               /\ logged' = <<[table |-> "activity_log", tick |-> tick,
                               character |-> body.name, action |-> "spawn"]>>
               /\ bcast' = <<[event |-> "spawn", id |-> body.name,
                              x |-> spawn[1], y |-> spawn[2]]>>
               /\ resp' = [NoResp EXCEPT !.actor = body.name, !.action = "register",
                                         !.status = "ok"]

\* the bodies of PATCH /api/character/:charId the model submits
PatchBodies ==
  [turn_interval : {Undefined, Given(0)},
   personality : {Undefined, Given(Verbose)},
   is_active : {Undefined, Given(FALSE)}]

\* Math.max(1, Math.min(1000, turn_interval))
ClampInterval(turnInterval) == Max(1, Min(1000, turnInterval))

\* PATCH /api/character/:charId
Patch(charId, token, body) ==
  /\ UNCHANGED <<tick, isNight, rel, reqs, accepted, lvl>>
  /\ logged' = <<>>
  /\ bcast' = <<>>
  /\ IF charId \notin DOMAIN chars \/ token # TokenOf(charId)
       THEN /\ resp' = [NoResp EXCEPT !.actor = charId, !.action = "patch",
                                      !.status = "InvalidCharacterOrToken"]
            /\ UNCHANGED chars
     ELSE IF body.turn_interval = Undefined /\ body.personality = Undefined
               /\ body.is_active = Undefined
       THEN /\ resp' = [NoResp EXCEPT !.actor = charId, !.action = "patch",
                                      !.status = "NoUpdates"]
            /\ UNCHANGED chars
     ELSE /\ resp' = [NoResp EXCEPT !.actor = charId, !.action = "patch", !.status = "ok"]
          /\ chars' = [chars EXCEPT ![charId] =
               [@ EXCEPT
                  !.turnInterval = IF body.turn_interval = Undefined
                                     THEN @ ELSE ClampInterval(body.turn_interval[1]),
                  !.personality = IF body.personality = Undefined
                                    THEN @ ELSE Slice(body.personality[1], 1000),
                  !.isActive = IF body.is_active = Undefined THEN @ ELSE body.is_active[1]]]

-----------------------------------------------------------------------------
(* Initial states of the specifications *)

NoRequests == [s \in 1..MaxInFlight |-> [pc |-> "idle"]]
NoAccepted == [c \in Actors |-> <<>>]
NoLevel == [total |-> 0, done |-> FALSE, out |-> calculateLevel(0)]

\* a fresh world: tick 0, two characters just registered, bob with a turn
\* interval of 2
InitFresh ==
  /\ tick = 0
  /\ isNight = FALSE
  /\ chars = [c \in Actors |->
                IF c = "alice" THEN Character(0, 0, StartEnergy, 0, 0, 1)
                               ELSE Character(2, 0, StartEnergy, 0, 0, 2)]
  /\ rel = [p \in Pairs |-> NoRow]

\* a world some 500 ticks old, Horizon ticks before the end of its second
\* night. alice met bob at tick 1 and has talked to him 34 times: 15 at once,
\* then as cooldown and decay allowed, the last time at tick 351; the decays at
\* 400 and 450 left recentExchanges at 7. She was idle once long enough for one
\* energy regeneration, so energy = 100 - 3*34 + 5 = 3, and earned
\* xp = 20 + 4*5 + 5*2 (talks) + 4*10 (signpost) + 9 (moves) = 99.
\* bob only ever examined things. Both have acted on the current tick.
SeasonedTick == 2 * (DayLength + NightLength) - Horizon

InitSeasoned ==
  /\ tick = SeasonedTick
  /\ isNight = shouldBeNight(SeasonedTick)
  /\ chars = [c \in Actors |->
                IF c = "alice"
                  THEN [Character(1, 0, 3, 99, SeasonedTick, 1) EXCEPT
                          !.moments = <<[tick |-> 1, category |-> "social",
                                         moment |-> FirstMeetingMoment("bob")]>>]
                  ELSE [Character(2, 0, StartEnergy, 0, SeasonedTick, 1) EXCEPT
                          !.moments = <<[tick |-> 1, category |-> "social",
                                         moment |-> FirstMeetingMoment("alice")]>>]]
  /\ rel = [p \in Pairs |->
              IF p = <<"alice", "bob">>
                THEN [exists |-> TRUE, sentiment |-> 38, interactions |-> 34,
                      recentExchanges |-> 7, cooldownUntilTick |-> 0]
                ELSE NoRow]

\* the same world with other histories. alice has talked to bob 33 times and
\* kept busy (examining) between talks, so no regeneration reached her:
\* energy = 100 - 3*33 = 1. bob first talked to alice at tick
\* SeasonedTick - 24 and then on each tick up to SeasonedTick - 10, 15 talks:
\* energy 100 - 3*15 = 55, xp 20 + 4*5 + 5*2 = 50, and the 15th exchange put
\* the pair (bob, alice) into cooldown until SeasonedTick + 20. Each direction's
\* first talk added a first-meeting moment to both.
InitWeary ==
  /\ tick = SeasonedTick
  /\ isNight = shouldBeNight(SeasonedTick)
  /\ chars = [c \in Actors |->
                IF c = "alice"
                  THEN [Character(1, 0, 1, 99, SeasonedTick, 1) EXCEPT
                          !.moments = <<[tick |-> 1, category |-> "social",
                                         moment |-> FirstMeetingMoment("bob")],
                                        [tick |-> SeasonedTick - 24, category |-> "social",
                                         moment |-> FirstMeetingMoment("bob")]>>]
                  ELSE [Character(2, 0, 55, 50, SeasonedTick, 1) EXCEPT
                          !.moments = <<[tick |-> 1, category |-> "social",
                                         moment |-> FirstMeetingMoment("alice")],
                                        [tick |-> SeasonedTick - 24, category |-> "social",
                                         moment |-> FirstMeetingMoment("alice")]>>]]
  /\ rel = [p \in Pairs |->
              IF p = <<"alice", "bob">>
                THEN [exists |-> TRUE, sentiment |-> 37, interactions |-> 33,
                      recentExchanges |-> 7, cooldownUntilTick |-> 0]
                ELSE [exists |-> TRUE, sentiment |-> 19, interactions |-> 15,
                      recentExchanges |-> 15,
                      cooldownUntilTick |-> SeasonedTick - 10 + CooldownTicks]]

\* the same world with an old friendship in it: alice has talked to bob 95
\* times (sentiment 5 + 94 = 99) and the decays have long emptied her count;
\* bob has never talked to her
InitFriends ==
  /\ tick = SeasonedTick
  /\ isNight = shouldBeNight(SeasonedTick)
  /\ chars = [c \in Actors |->
                IF c = "alice"
                  THEN [Character(1, 0, 40, 300, SeasonedTick, 1) EXCEPT
                          !.moments = <<[tick |-> 1, category |-> "social",
                                         moment |-> FirstMeetingMoment("bob")]>>]
                  ELSE [Character(2, 0, 40, 400, SeasonedTick, 1) EXCEPT
                          !.moments = <<[tick |-> 1, category |-> "social",
                                         moment |-> FirstMeetingMoment("alice")]>>]]
  /\ rel = [p \in Pairs |->
              IF p = <<"alice", "bob">>
                THEN [exists |-> TRUE, sentiment |-> 99, interactions |-> 95,
                      recentExchanges |-> 0, cooldownUntilTick |-> 0]
                ELSE NoRow]

InitOutputs ==
  /\ resp = NoResp
  /\ logged = <<>>
  /\ bcast = <<>>
  /\ reqs = NoRequests
  /\ accepted = NoAccepted
  /\ lvl = NoLevel

-----------------------------------------------------------------------------
(* Specification: requests handled one at a time, and the world clock *)

Init ==
  /\ InitFresh \/ InitSeasoned
  /\ InitOutputs

\* the clock runs for Horizon ticks from either starting tick
Tick ==
  /\ \/ tick < Horizon
     \/ tick >= SeasonedTick /\ tick < SeasonedTick + Horizon
  /\ worldTick

Act == \E c \in Actors, req \in Requests : Submit(c, TokenOf(c), req)

BadAuth == \E c \in Actors, req \in OtherRequests : Submit(c, BadToken, req)

Next == Tick \/ Act \/ BadAuth

Spec == Init /\ [][Next]_vars

-----------------------------------------------------------------------------
(* Specification of the leveling function: calculateLevel on every total *)

InitLevel ==
  /\ InitFresh
  /\ resp = NoResp
  /\ logged = <<>>
  /\ bcast = <<>>
  /\ reqs = NoRequests
  /\ accepted = NoAccepted
  /\ \E total \in 0..MaxXp : lvl = [NoLevel EXCEPT !.total = total]

Calc ==
  /\ ~lvl.done
  /\ lvl' = [lvl EXCEPT !.done = TRUE, !.out = calculateLevel(lvl.total)]
  /\ UNCHANGED <<tick, isNight, chars, rel, resp, logged, bcast, reqs, accepted>>

NextLevel == Calc

SpecLevel == InitLevel /\ [][NextLevel]_vars

-----------------------------------------------------------------------------
(* Specification of XP awards: any sequence of the handler's awards to one actor *)

\* the amounts the handler passes to awardXp, 0, and a whole first tier at once
XpAmounts ==
  {0, XP_REWARDS.move, RestXp, 2, XP_REWARDS.talk, XP_REWARDS.interact,
   XP_REWARDS.first_meeting, xpForLevel(1)}

Award(charId, amount) ==
  /\ chars[charId].xp + amount <= MaxAwardXp
  /\ LET xp == awardXp(chars, charId, amount)
     IN /\ chars' = xp.chars
        /\ logged' = xp.logged
        /\ bcast' = xp.bcast
        /\ resp' = [NoResp EXCEPT !.actor = charId, !.action = "award",
                                  !.status = "ok", !.xpGained = amount]
  /\ UNCHANGED <<tick, isNight, rel, reqs, accepted, lvl>>

NextAward == \E amount \in XpAmounts : Award("alice", amount)

SpecAward == Init /\ [][NextAward]_vars

-----------------------------------------------------------------------------
(* Specification of the life story: addSignificantMoment is applied to the  *)
(* two characters once per tick each, alice remembering short names and bob *)
(* long ones, from worlds whose tick has one, three and four digits         *)

StartTicks == {0, 900, 9900}

InitMoments ==
  /\ tick \in StartTicks
  /\ isNight = shouldBeNight(tick)
  /\ chars = [c \in Actors |->
                IF c = "alice" THEN Character(0, 0, StartEnergy, 0, 0, 1)
                               ELSE Character(2, 0, StartEnergy, 0, 0, 2)]
  /\ rel = [p \in Pairs |-> NoRow]
  /\ InitOutputs

\* charId has a moment of the current tick
Remembered(charId) ==
  /\ chars[charId].moments # <<>>
  /\ chars[charId].moments[Len(chars[charId].moments)].tick = tick

AboutOf(charId) == IF charId = "alice" THEN NameOf("bob") ELSE LongName

Remember(charId) ==
  /\ ~Remembered(charId)
  /\ chars' = addSignificantMoment(chars, charId,
                                   FirstMeetingMoment(AboutOf(charId)), "social")
  /\ resp' = [NoResp EXCEPT !.actor = charId, !.action = "moment", !.status = "ok"]
  /\ logged' = <<>>
  /\ bcast' = <<>>
  /\ UNCHANGED <<tick, isNight, rel, reqs, accepted, lvl>>

TickMoments ==
  /\ tick % EventEvery < MomentTicks
  /\ \A c \in Actors : Remembered(c)
  /\ worldTick

NextMoments ==
  \/ \E c \in Actors : Remember(c)
  \/ TickMoments

SpecMoments == InitMoments /\ [][NextMoments]_vars

-----------------------------------------------------------------------------
(* Specification of conversation fatigue: alice keeps talking to bob while *)
(* the clock runs, from the fresh world                                     *)

InitFatigue ==
  /\ InitFresh
  /\ InitOutputs

TickFatigue ==
  /\ tick < FatigueTicks
  /\ worldTick

TalkFatigue ==
  \E req \in {r \in TalkRequests : r.message # ""} :
    Submit("alice", TokenOf("alice"), req)

NextFatigue == TickFatigue \/ TalkFatigue

SpecFatigue == InitFatigue /\ [][NextFatigue]_vars

-----------------------------------------------------------------------------
(* Specification from the fresh world alone *)

InitFromFresh ==
  /\ InitFresh
  /\ InitOutputs

SpecFresh == InitFromFresh /\ [][Next]_vars

-----------------------------------------------------------------------------
(* Specification from the world of the weary: every rejection of the       *)
(* handler can be met within a few ticks                                    *)

InitFromWeary ==
  /\ InitWeary
  /\ InitOutputs

SpecWeary == InitFromWeary /\ [][Next]_vars

-----------------------------------------------------------------------------
(* Specification from the world of the old friendship *)

InitFromFriends ==
  /\ InitFriends
  /\ InitOutputs

SpecFriends == InitFromFriends /\ [][Next]_vars

-----------------------------------------------------------------------------
(* Specification of the crowd: the fresh world with two more characters in  *)
(* it, dave in the far corner and erin next to the campfire. alice and bob  *)
(* move and talk; erin may set herself inactive                             *)

Bystanders == {"dave", "erin"}
Crowd == Actors \cup Bystanders
CrowdPairs == {p \in Crowd \X Crowd : p[1] # p[2]}

InitCrowd ==
  /\ tick = 0
  /\ isNight = FALSE
  /\ chars = [c \in Crowd |->
                CASE c = "alice" -> Character(0, 0, StartEnergy, 0, 0, 1)
                  [] c = "bob" -> Character(2, 0, StartEnergy, 0, 0, 2)
                  [] c = "dave" -> Character(Width - 1, Height - 1, StartEnergy, 0, 0, 1)
                  [] OTHER -> Character(0, Height - 1, StartEnergy, 0, 0, 1)]
  /\ rel = [p \in CrowdPairs |-> NoRow]
  /\ InitOutputs

CrowdRequests ==
  {r \in MoveRequests : r.direction \in Directions}
    \cup {r \in TalkRequests : r.message # ""}

ActCrowd == \E c \in Actors, req \in CrowdRequests : Submit(c, TokenOf(c), req)

Leave ==
  Patch("erin", TokenOf("erin"),
        [turn_interval |-> Undefined, personality |-> Undefined,
         is_active |-> Given(FALSE)])

TickCrowd ==
  /\ tick < CrowdTicks
  /\ worldTick

NextCrowd == ActCrowd \/ Leave \/ TickCrowd

SpecCrowd == InitCrowd /\ [][NextCrowd]_vars

-----------------------------------------------------------------------------
(* Specification with a failing durable store: the handler of an accepted  *)
(* move or talk issues its writes one after another (each pool.query is    *)
(* its own statement, there is no BEGIN/COMMIT), and the store may fail    *)
(* one of them; the exception reaches the handler's catch, which answers   *)
(* 500                                                                     *)

\* one statement of the handler; who, amount, x, y, pair, count, until and row
\* are its parameters (those a statement does not use are left empty)
Write(op, who) ==
  [op |-> op, who |-> who, amount |-> 0, x |-> 0, y |-> 0, about |-> NoOne,
   count |-> 0, until |-> 0, table |-> "none", action |-> "none"]

\* the statements of awardXp(charId, amount): the UPDATE of xp, level and
\* max_hp and, on a level up, the log row, the heal and the broadcast
AwardWrites(charId, amount) ==
  LET levelInfo == calculateLevel(NewXpOf(chars[charId].xp, amount))
  IN <<[Write("xp", charId) EXCEPT !.amount = amount]>>
       \o (IF levelInfo.level > chars[charId].level
             THEN <<[Write("insert", charId) EXCEPT !.table = "activity_log",
                                                   !.action = "level_up"],
                    Write("heal", charId),
                    [Write("broadcast", charId) EXCEPT !.action = "level_up"]>>
             ELSE <<>>)

\* the statements of a move that passed its validations
MoveWrites(charId, me, direction) ==
  <<[Write("position", charId) EXCEPT !.x = me.x + dirs[direction][1],
                                      !.y = me.y + dirs[direction][2]],
    [Write("insert", charId) EXCEPT !.table = "activity_log", !.action = "move"],
    [Write("broadcast", charId) EXCEPT !.action = "move"]>>
    \o AwardWrites(charId, XP_REWARDS.move)
    \o <<Write("stamp", charId)>>

\* the statements of a talk that passed its validations
TalkWrites(charId, listener, wt) ==
  LET existingRel == rel[<<charId, listener>>]
      isFirstMeeting == ~existingRel.exists
      newExchangeCount == existingRel.recentExchanges + 1
      xpReward == TalkXp(isFirstMeeting, newExchangeCount)
  IN <<Write("energy", charId),
       [Write("insert", charId) EXCEPT !.table = "conversations", !.action = "talk"],
       [Write("insert", charId) EXCEPT !.table = "memories", !.action = "talk"],
       [Write("insert", listener) EXCEPT !.table = "memories", !.action = "talk"],
       [Write("upsert", charId) EXCEPT !.about = listener, !.count = newExchangeCount,
                                       !.until = NewCooldownOf(newExchangeCount, wt)]>>
       \o (IF isFirstMeeting
             THEN <<[Write("moment", charId) EXCEPT !.about = listener],
                    [Write("moment", listener) EXCEPT !.about = charId]>>
             ELSE <<>>)
       \o (IF xpReward > 0 THEN AwardWrites(charId, xpReward) ELSE <<>>)
       \o <<[Write("insert", charId) EXCEPT !.table = "activity_log", !.action = "talk"],
            [Write("broadcast", charId) EXCEPT !.action = "talk"],
            Write("stamp", charId)>>

\* a broadcast is no statement of the store and cannot fail
Durable(w) == w.op # "broadcast"

\* the store st = [chars, rel, logged] after the statement w
ApplyWrite(st, w, wt) ==
  LET row == st.chars[w.who]
  IN CASE w.op = "position" ->
            [st EXCEPT !.chars[w.who].x = w.x, !.chars[w.who].y = w.y]
       [] w.op = "energy" ->
            [st EXCEPT !.chars[w.who].energy = row.energy - energyCost]
       [] w.op = "xp" ->
            [st EXCEPT !.chars[w.who] =
               WriteXp(row, NewXpOf(row.xp, w.amount),
                       calculateLevel(NewXpOf(row.xp, w.amount)).level)]
       [] w.op = "heal" -> [st EXCEPT !.chars[w.who] = HealOnLevelUp(row)]
       [] w.op = "moment" ->
            [st EXCEPT !.chars = addSignificantMoment(st.chars, w.who,
                                   FirstMeetingMoment(NameOf(w.about)), "social")]
       [] w.op = "upsert" ->
            [st EXCEPT !.rel[<<w.who, w.about>>] =
               Upsert(st.rel[<<w.who, w.about>>], w.count, w.until)]
       [] w.op = "insert" ->
            [st EXCEPT !.logged =
               Append(@, [table |-> w.table,
                          tick |-> IF w.action = "level_up" THEN tick ELSE wt,
                          character |-> w.who, action |-> w.action])]
       [] w.op = "stamp" -> [st EXCEPT !.chars = updateLastAction(st.chars, w.who)]
       [] OTHER -> st

\* the store after the first n statements of ws
RECURSIVE RunWrites(_, _, _, _)
RunWrites(st, ws, n, wt) ==
  IF n = 0 THEN st
  ELSE ApplyWrite(RunWrites(st, ws, n - 1, wt), ws[n], wt)

\* the statements of the accepted request req of charId, <<>> if it is rejected
WritesOf(charId, req, listener) ==
  LET me == chars[charId]
  IN IF req.action = "move" /\ doMove(charId, me, tick, req.direction).resp.status = "ok"
       THEN MoveWrites(charId, me, req.direction)
     ELSE IF req.action = "talk" /\ listener # NoOne
               /\ doTalk(charId, me, tick, req.message, listener).resp.status = "ok"
       THEN TalkWrites(charId, listener, tick)
     ELSE <<>>

FaultyRequests == {r \in MoveRequests \cup TalkRequests : r.direction # "up"}

\* the handler of req runs up to its k-th statement, which the store fails:
\* catch (err) { res.status(500).json({ error: err.message }) }
Fail(charId, req, k) ==
  /\ canAct(charId)
  /\ chars[charId].xp < MaxFaultXp
  /\ chars[charId].energy > StartEnergy - MaxFaultTalks * energyCost
  /\ \E l \in (IF req.action = "talk" THEN Listeners(charId, chars[charId]) ELSE {NoOne}) :
       LET ws == WritesOf(charId, req, l)
           st == RunWrites([chars |-> chars, rel |-> rel, logged |-> <<>>], ws, k - 1, tick)
       IN /\ k \in 1..Len(ws)
          /\ Durable(ws[k])
          /\ chars' = st.chars
          /\ rel' = st.rel
          /\ logged' = st.logged
          /\ bcast' = <<>>
          /\ resp' = [NoResp EXCEPT !.actor = charId, !.action = req.action,
                                    !.status = "ServerError", !.listener = l,
                                    !.ticksLeft = k]
  /\ UNCHANGED <<tick, isNight, reqs, accepted, lvl>>

\* the largest number of statements of one request
MaxWrites == 14

ActFaulty == \E c \in Actors, req \in FaultyRequests : Submit(c, TokenOf(c), req)

Failing == \E c \in Actors, req \in FaultyRequests, k \in 1..MaxWrites : Fail(c, req, k)

TickFaulty ==
  /\ tick < FaultTicks
  /\ worldTick

NextFaulty == TickFaulty \/ ActFaulty \/ Failing

SpecFaulty == InitFromFresh /\ [][NextFaulty]_vars

-----------------------------------------------------------------------------
(* Specification with a clock whose statements may fail *)

TickFailing ==
  /\ \/ tick < Horizon
     \/ tick >= SeasonedTick /\ tick < SeasonedTick + Horizon
  /\ \E failed \in {TickSteps[i] : i \in 1..Len(TickSteps)} : worldTickFailing(failed)

NextClock == Tick \/ TickFailing \/ Act \/ BadAuth

SpecClock == Init /\ [][NextClock]_vars

-----------------------------------------------------------------------------
(* Specification of the whole server from a new world: registrations,      *)
(* settings updates, actions and the clock                                  *)

\* a new world in which alice alone has registered
InitAlone ==
  /\ tick = 0
  /\ isNight = FALSE
  /\ chars = [c \in {"alice"} |-> Character(0, 0, StartEnergy, 0, 0, 2)]
  /\ rel = [p \in Pairs |-> NoRow]
  /\ InitOutputs

SettingsRequests ==
  {r \in MoveRequests : r.direction = "east"}
    \cup {r \in TalkRequests : r.message # ""}

Registering == \E body \in RegisterBodies : Register(body)

Patching ==
  \E c \in Actors, body \in PatchBodies :
    \E token \in {TokenOf(c), BadToken} : Patch(c, token, body)

ActSettings ==
  \E c \in DOMAIN chars, req \in SettingsRequests : Submit(c, TokenOf(c), req)

TickSettings ==
  /\ tick < SettingsTicks
  /\ worldTick

NextSettings == Registering \/ Patching \/ ActSettings \/ TickSettings

SpecSettings == InitAlone /\ [][NextSettings]_vars

-----------------------------------------------------------------------------
(* Specification of registrations and moves: characters register with any  *)
(* turn_interval, change it, and move about while the clock runs            *)

TurnIntervals == {Undefined, Given(0), Given(-3)}

TurnRegisterBodies ==
  [name : Actors, personality : {Curious}, origin_story : {NoStory},
   turn_interval : TurnIntervals]

TurnPatchBodies ==
  [turn_interval : {Given(-3), Given(5000)},
   personality : {Undefined}, is_active : {Undefined}]

RegisteringAny == \E body \in TurnRegisterBodies : Register(body)

PatchingAny ==
  \E c \in DOMAIN chars, body \in TurnPatchBodies : Patch(c, TokenOf(c), body)

Moving ==
  \E c \in DOMAIN chars, req \in MoveRequests :
    /\ chars[c].xp < MaxRegisterXp
    /\ Submit(c, TokenOf(c), req)

TickRegister ==
  /\ tick < RegisterTicks
  /\ worldTick

NextRegister == RegisteringAny \/ PatchingAny \/ Moving \/ TickRegister

SpecRegister == InitAlone /\ [][NextRegister]_vars

-----------------------------------------------------------------------------
(* Specification of the clock alone, over two days and nights *)

TickDayNight ==
  /\ tick < DayNightTicks
  /\ worldTick

NextDayNight == TickDayNight

SpecDayNight == InitFromFresh /\ [][NextDayNight]_vars

-----------------------------------------------------------------------------
(* Specification of the XP of talks: alice walks and talks to bob *)

TalkXpRequests ==
  {r \in MoveRequests : r.direction \in {"east", "west"}}
    \cup {r \in TalkRequests : r.message # ""}

ActTalkXp == \E req \in TalkXpRequests : Submit("alice", TokenOf("alice"), req)

TickTalkXp ==
  /\ tick < TalkXpTicks
  /\ worldTick

NextTalkXp == ActTalkXp \/ TickTalkXp

SpecTalkXp == InitFromFresh /\ [][NextTalkXp]_vars

-----------------------------------------------------------------------------
(* Specification of examine in the two server variants. The simpler server *)
(* is run on the same store; its handler is given examine requests only,   *)
(* and its answers carry the action "examineSimple".                       *)

\* case 'examine' of the simpler server
doExamineSimple(charId, me, wt, target, o) ==
  IF o = NoObject
    THEN Rejected(charId, "examineSimple", "NoTargetNearby", 0)
    ELSE [resp |-> [NoResp EXCEPT !.actor = charId, !.action = "examineSimple",
                                  !.status = "ok"],
          chars |-> chars,
          rel |-> rel,
          logged |-> <<ActivityRow(wt, charId, "examine")>>,
          bcast |-> <<>>]

ExamineRequests == {r \in ObjectRequests : r.action = "examine"}

\* POST /api/action/:charId of the simpler server, for an examine request
SubmitSimple(charId, token, req) ==
  /\ UNCHANGED <<tick, isNight, reqs, accepted, lvl>>
  /\ IF token # TokenOf(charId)
       THEN /\ resp' = [NoResp EXCEPT !.actor = charId, !.action = "examineSimple",
                                      !.status = "InvalidCharacterOrToken"]
            /\ logged' = <<>>
            /\ bcast' = <<>>
            /\ UNCHANGED <<chars, rel>>
     ELSE IF ~canAct(charId)
       THEN /\ resp' = [NoResp EXCEPT !.actor = charId, !.action = "examineSimple",
                                      !.status = "NotYourTurn"]
            /\ logged' = <<>>
            /\ bcast' = <<>>
            /\ UNCHANGED <<chars, rel>>
     ELSE \E o \in OneOf(Matching(chars[charId], req.target, ExamineRadius)) :
            LET out == doExamineSimple(charId, chars[charId], tick, req.target, o)
            IN /\ resp' = out.resp
               /\ chars' = IF out.resp.status = "ok"
                             THEN updateLastAction(out.chars, charId)
                             ELSE out.chars
               /\ rel' = out.rel
               /\ logged' = out.logged
               /\ bcast' = out.bcast

ExamineRicher == \E c \in Actors, req \in ExamineRequests : Submit(c, TokenOf(c), req)

ExamineSimpler ==
  \E c \in Actors, req \in ExamineRequests :
    \E token \in {TokenOf(c), BadToken} : SubmitSimple(c, token, req)

NextExamine == Tick \/ ExamineRicher \/ ExamineSimpler

SpecExamine == Init /\ [][NextExamine]_vars

-----------------------------------------------------------------------------
(* Specification with requests in flight: the handler runs in the steps its *)
(* awaits allow, interleaved with other requests and with the clock         *)

Slots == 1..MaxInFlight

RaceRequests ==
  {r \in MoveRequests : r.direction \in {"east", "west"}}
    \cup {r \in TalkRequests : r.message # ""}

Idle == [pc |-> "idle"]

\* the request arrives and the handler reads the character's row (me)
Arrive(s, charId, req) ==
  /\ reqs[s].pc = "idle"
  /\ reqs' = [reqs EXCEPT ![s] = [pc |-> "gate", actor |-> charId, req |-> req,
                                  me |-> chars[charId], wt |-> 0, resp |-> NoResp]]
  /\ UNCHANGED <<tick, isNight, chars, rel, resp, logged, bcast, accepted, lvl>>

\* if (!(await canAct(charId))) return 429
Gate(s) ==
  /\ reqs[s].pc = "gate"
  /\ IF canAct(reqs[s].actor)
       THEN /\ reqs' = [reqs EXCEPT ![s].pc = "world"]
            /\ UNCHANGED resp
       ELSE /\ reqs' = [reqs EXCEPT ![s] = Idle]
            /\ resp' = [NoResp EXCEPT !.actor = reqs[s].actor,
                                      !.action = reqs[s].req.action,
                                      !.status = "NotYourTurn"]
  /\ UNCHANGED <<tick, isNight, chars, rel, logged, bcast, accepted, lvl>>

\* const world = await pool.query('SELECT * FROM world WHERE id = 1')
ReadWorld(s) ==
  /\ reqs[s].pc = "world"
  /\ reqs' = [reqs EXCEPT ![s].pc = "handle", ![s].wt = tick]
  /\ UNCHANGED <<tick, isNight, chars, rel, resp, logged, bcast, accepted, lvl>>

\* the switch: the action is validated and, if valid, committed
Commit(s) ==
  /\ reqs[s].pc = "handle"
  /\ \E out \in Handle(reqs[s].actor, reqs[s].me, reqs[s].wt, reqs[s].req) :
       /\ chars' = out.chars
       /\ rel' = out.rel
       /\ logged' = out.logged
       /\ bcast' = out.bcast
       /\ IF out.resp.status = "ok"
            THEN /\ reqs' = [reqs EXCEPT ![s].pc = "stamp", ![s].resp = out.resp]
                 /\ accepted' = [accepted EXCEPT ![reqs[s].actor] =
                                   LastN(Append(@, reqs[s].wt), 2)]
                 /\ UNCHANGED resp
            ELSE /\ reqs' = [reqs EXCEPT ![s] = Idle]
                 /\ resp' = out.resp
                 /\ UNCHANGED accepted
  /\ UNCHANGED <<tick, isNight, lvl>>

\* await updateLastAction(charId); res.json(result)
Stamp(s) ==
  /\ reqs[s].pc = "stamp"
  /\ chars' = updateLastAction(chars, reqs[s].actor)
  /\ resp' = reqs[s].resp
  /\ reqs' = [reqs EXCEPT ![s] = Idle]
  /\ logged' = <<>>
  /\ bcast' = <<>>
  /\ UNCHANGED <<tick, isNight, rel, accepted, lvl>>

TickRace ==
  /\ tick < RaceTicks
  /\ worldTick

NextRace ==
  \/ \E s \in Slots, c \in Actors, req \in RaceRequests : Arrive(s, c, req)
  \/ \E s \in Slots : Gate(s)
  \/ \E s \in Slots : ReadWorld(s)
  \/ \E s \in Slots : Commit(s)
  \/ \E s \in Slots : Stamp(s)
  \/ TickRace

SpecRace == InitFromFresh /\ [][NextRace]_vars

-----------------------------------------------------------------------------
(* Specification of concurrent registrations: each request first looks for  *)
(* its name, then inserts its row, and requests interleave between the two  *)
(* statements. A character's id is its name with the request's random       *)
(* suffix, here the number of the request.                                  *)

RegisterNames == {"alice", "Alice", "bob"}

\* LOWER(name)
Lower(name) == IF name = "Alice" THEN "alice" ELSE name

\* SELECT id FROM characters WHERE LOWER(name) = LOWER($1)
Existing(name) == {id \in DOMAIN chars : Lower(id[1]) = Lower(name)}

InitNames ==
  /\ tick = 0
  /\ isNight = FALSE
  /\ chars = <<>>
  /\ rel = [p \in Pairs |-> NoRow]
  /\ InitOutputs

\* a registration request arrives; suffix is its uuid, different for every
\* request that can come to insert
RegArrive(s, name) ==
  /\ reqs[s].pc = "idle"
  /\ Cardinality(DOMAIN chars) < MaxRegistered
  /\ reqs' = [reqs EXCEPT ![s] = [pc |-> "check", name |-> name,
                                   suffix |-> MaxInFlight * Cardinality(DOMAIN chars) + s]]
  /\ UNCHANGED <<tick, isNight, chars, rel, resp, logged, bcast, accepted, lvl>>

\* the duplicate check
RegCheck(s) ==
  /\ reqs[s].pc = "check"
  /\ IF Existing(reqs[s].name) # {}
       THEN /\ resp' = [NoResp EXCEPT !.actor = reqs[s].name, !.action = "register",
                                      !.status = "DuplicateName"]
            /\ reqs' = [reqs EXCEPT ![s] = Idle]
       ELSE /\ resp' = resp
            /\ reqs' = [reqs EXCEPT ![s].pc = "insert"]
  /\ UNCHANGED <<tick, isNight, chars, rel, logged, bcast, accepted, lvl>>

\* the spawn point, the INSERT, the spawn log and the response
RegInsert(s) ==
  /\ reqs[s].pc = "insert"
  /\ LET id == <<reqs[s].name, reqs[s].suffix>>
     IN /\ \E spawn \in SpawnTiles :
             /\ chars' = [c \in (DOMAIN chars) \cup {id} |->
                            IF c = id
                              THEN Character(spawn[1], spawn[2], StartEnergy, 0, 0, 1)
                              ELSE chars[c]]
             /\ logged' = <<[table |-> "activity_log", tick |-> tick,
                             character |-> id, action |-> "spawn"]>>
             /\ bcast' = <<[event |-> "spawn", id |-> id,
                            x |-> spawn[1], y |-> spawn[2]]>>
        /\ resp' = [NoResp EXCEPT !.actor = reqs[s].name, !.action = "register",
                                  !.status = "ok"]
  /\ reqs' = [reqs EXCEPT ![s] = Idle]
  /\ UNCHANGED <<tick, isNight, rel, accepted, lvl>>

NextNames ==
  \/ \E s \in Slots, name \in RegisterNames : RegArrive(s, name)
  \/ \E s \in Slots : RegCheck(s)
  \/ \E s \in Slots : RegInsert(s)

SpecNames == InitNames /\ [][NextNames]_vars

-----------------------------------------------------------------------------
(* Specification of overlapping first meetings: several characters talk to  *)
(* bob for the first time at once. Each talk has written its relationship   *)
(* row and comes to addSignificantMoment(listener.id, ...), which reads the  *)
(* listener's row in one statement and writes it in another                 *)

Speakers == Crowd \ {"bob"}

\* the crowd with alice one step east of the campfire: bob is the nearest
\* character to alice and to dave
InitMeet ==
  /\ tick = 0
  /\ isNight = FALSE
  /\ chars = [c \in Crowd |->
                CASE c = "alice" -> Character(1, 0, StartEnergy, 0, 0, 1)
                  [] c = "bob" -> Character(2, 0, StartEnergy, 0, 0, 2)
                  [] c = "dave" -> Character(Width - 1, Height - 1, StartEnergy, 0, 0, 1)
                  [] OTHER -> Character(0, Height - 1, StartEnergy, 0, 0, 1)]
  /\ rel = [p \in CrowdPairs |-> NoRow]
  /\ InitOutputs

\* the talk of speaker has upserted its first row and calls addSignificantMoment
MeetStart(s, speaker) ==
  /\ reqs[s].pc = "idle"
  /\ "bob" \in Listeners(speaker, chars[speaker])
  /\ ~rel[<<speaker, "bob">>].exists
  /\ rel' = [rel EXCEPT ![<<speaker, "bob">>] = Upsert(@, 1, 0)]
  /\ reqs' = [reqs EXCEPT ![s] = [pc |-> "read", speaker |-> speaker]]
  /\ resp' = NoResp
  /\ logged' = <<>>
  /\ bcast' = <<>>
  /\ UNCHANGED <<tick, isNight, chars, accepted, lvl>>

\* SELECT name, significant_moments, life_story FROM characters WHERE id = $1
MeetRead(s) ==
  /\ reqs[s].pc = "read"
  /\ reqs' = [reqs EXCEPT ![s] = [pc |-> "write", speaker |-> reqs[s].speaker,
                                   me |-> chars["bob"]]]
  /\ UNCHANGED <<tick, isNight, chars, rel, resp, logged, bcast, accepted, lvl>>

\* UPDATE characters SET significant_moments = $1, life_story = $2 WHERE id = $3,
\* both computed from the row read earlier
MeetWrite(s) ==
  /\ reqs[s].pc = "write"
  /\ LET written == addSignificantMoment([chars EXCEPT !["bob"] = reqs[s].me], "bob",
                                         FirstMeetingMoment(NameOf(reqs[s].speaker)),
                                         "social")["bob"]
     IN chars' = [chars EXCEPT !["bob"].moments = written.moments,
                               !["bob"].lifeStory = written.lifeStory]
  /\ reqs' = [reqs EXCEPT ![s] = Idle]
  /\ resp' = [NoResp EXCEPT !.actor = reqs[s].speaker, !.action = "moment",
                            !.status = "ok", !.listener = "bob"]
  /\ logged' = <<>>
  /\ bcast' = <<>>
  /\ UNCHANGED <<tick, isNight, rel, accepted, lvl>>

TickMeet ==
  /\ tick < MeetTicks
  /\ worldTick

NextMeet ==
  \/ \E s \in Slots, speaker \in Speakers : MeetStart(s, speaker)
  \/ \E s \in Slots : MeetRead(s)
  \/ \E s \in Slots : MeetWrite(s)
  \/ TickMeet

SpecMeet == InitMeet /\ [][NextMeet]_vars

-----------------------------------------------------------------------------
(* Specification of overlapping awards: awardXp calls for alice are in      *)
(* flight at once (two of her submissions having passed the gate), each     *)
(* reading her row in one statement and writing it in another               *)

OverlapAmounts == {XP_REWARDS.talk, xpForLevel(1)}

\* awardXp(charId, amount, reason) is called
AwardStart(s, amount) ==
  /\ reqs[s].pc = "idle"
  /\ chars["alice"].xp + amount <= MaxOverlapXp
  /\ reqs' = [reqs EXCEPT ![s] = [pc |-> "read", amount |-> amount]]
  /\ UNCHANGED <<tick, isNight, chars, rel, resp, logged, bcast, accepted, lvl>>

\* SELECT id, name, emoji, xp, level FROM characters WHERE id = $1
AwardRead(s) ==
  /\ reqs[s].pc = "read"
  /\ reqs' = [reqs EXCEPT ![s] = [pc |-> "write", amount |-> reqs[s].amount,
                                   me |-> chars["alice"]]]
  /\ UNCHANGED <<tick, isNight, chars, rel, resp, logged, bcast, accepted, lvl>>

\* UPDATE characters SET xp = $1, level = $2, max_hp = $3, and on a level-up
\* the log row, hp = max_hp and the broadcast, all from the row read earlier
AwardWrite(s) ==
  /\ reqs[s].pc = "write"
  /\ LET xp == awardXp([chars EXCEPT !["alice"] = reqs[s].me], "alice", reqs[s].amount)
         row == xp.chars["alice"]
     IN /\ chars' = [chars EXCEPT !["alice"].xp = row.xp,
                                  !["alice"].level = row.level,
                                  !["alice"].maxHp = row.maxHp,
                                  !["alice"].hp = IF xp.ret.leveledUp THEN row.maxHp ELSE @]
        /\ logged' = xp.logged
        /\ bcast' = xp.bcast
  /\ resp' = [NoResp EXCEPT !.actor = "alice", !.action = "award", !.status = "ok",
                            !.xpGained = reqs[s].amount]
  /\ reqs' = [reqs EXCEPT ![s] = Idle]
  /\ UNCHANGED <<tick, isNight, rel, accepted, lvl>>

NextOverlap ==
  \/ \E s \in Slots, amount \in OverlapAmounts : AwardStart(s, amount)
  \/ \E s \in Slots : AwardRead(s)
  \/ \E s \in Slots : AwardWrite(s)

SpecOverlap == InitFromFresh /\ [][NextOverlap]_vars

-----------------------------------------------------------------------------
(* Specification of a talk overlapping the clock: one talk at a time, its   *)
(* fatigue check and its writes being separate statements between which the *)
(* clock may tick, from the world some 500 ticks old                        *)

\* the talk passes the gate, reads the world and its row, and finds a listener
\* and the fatigue row
TalkRead(s, charId) ==
  /\ reqs[s].pc = "idle"
  /\ canAct(charId)
  /\ \E l \in Listeners(charId, chars[charId]) :
       reqs' = [reqs EXCEPT ![s] = [pc |-> "write", actor |-> charId,
                                    me |-> chars[charId], wt |-> tick, listener |-> l,
                                    relCheck |-> RelCheck(charId, l)]]
  /\ UNCHANGED <<tick, isNight, chars, rel, resp, logged, bcast, accepted, lvl>>

\* the cooldown test and every write of the talk, then updateLastAction
TalkWrite(s) ==
  /\ reqs[s].pc = "write"
  /\ LET out == doTalkWith(reqs[s].actor, reqs[s].me, reqs[s].wt, "hello",
                           reqs[s].listener, reqs[s].relCheck)
     IN /\ resp' = out.resp
        /\ chars' = IF out.resp.status = "ok"
                      THEN updateLastAction(out.chars, reqs[s].actor)
                      ELSE out.chars
        /\ rel' = out.rel
        /\ logged' = out.logged
        /\ bcast' = out.bcast
  /\ reqs' = [reqs EXCEPT ![s] = Idle]
  /\ UNCHANGED <<tick, isNight, accepted, lvl>>

NextDecayRace ==
  \/ \E c \in Actors : TalkRead(1, c)
  \/ TalkWrite(1)
  \/ Tick

InitFromSeasoned ==
  /\ InitSeasoned
  /\ InitOutputs

SpecDecayRace == InitFromSeasoned /\ [][NextDecayRace]_vars

-----------------------------------------------------------------------------
(* Specification of the turn gate under a clock that keeps ticking: the     *)
(* characters of the fresh world submit moves and the timer fires the clock *)
(* again and again. The model stops the clock at LiveTicks, and submissions *)
(* a turn interval before that, so that the tick at which the gate reopens  *)
(* lies within the run                                                      *)

LiveRequests == {r \in MoveRequests : r.direction \in {"east", "west"}}

ActLive ==
  \E c \in Actors, req \in LiveRequests :
    /\ tick + chars[c].turnInterval <= LiveTicks
    /\ Submit(c, TokenOf(c), req)

TickLive ==
  /\ tick < LiveTicks
  /\ worldTick

NextLive == ActLive \/ TickLive

SpecLive == InitFromFresh /\ [][NextLive]_vars /\ WF_vars(TickLive)

-----------------------------------------------------------------------------
(* Specification of cooling pairs: from the world of the weary nobody talks *)
(* any more and the timer fires the clock again and again, up to            *)
(* CoolingTicks                                                             *)

TickCooling ==
  /\ tick < CoolingTicks
  /\ worldTick

NextCooling == TickCooling

SpecCooling == InitFromWeary /\ [][NextCooling]_vars /\ WF_vars(TickCooling)

-----------------------------------------------------------------------------
(* Properties *)

\* the step handled an authenticated request of charId
Handled(charId) ==
  /\ resp'.actor = charId
  /\ resp'.status \notin {"none", "InvalidCharacterOrToken"}

\* the step left the durable store as it was and published nothing
NothingChanged ==
  /\ chars' = chars
  /\ rel' = rel
  /\ tick' = tick
  /\ isNight' = isNight
  /\ logged' = <<>>
  /\ bcast' = <<>>

\* the gate condition of the claims, on the state before the step
GateOpen(charId) ==
  tick - chars[charId].lastActionTick >= chars[charId].turnInterval

\* C1: an authenticated submission passes the turn gate iff
\* (tick - lastActionTick) >= turnInterval when it is checked; otherwise it is
\* answered NotYourTurn and nothing changes.
C1_TurnGate ==
  [][\A c \in Actors :
       Handled(c) =>
         /\ (resp'.status # "NotYourTurn") <=> GateOpen(c)
         /\ resp'.status = "NotYourTurn" => NothingChanged]_vars

\* a submission was turned away by the gate, one tick short of its interval
C1_Witness ==
  /\ resp.status = "NotYourTurn"
  /\ resp.actor = "bob"
  /\ tick - chars["bob"].lastActionTick = 1
  /\ chars["bob"].turnInterval = 2

\* C2: any two accepted actions of an actor are at least turnInterval ticks
\* apart, for every interleaving of clock ticks and submissions.
C2_TurnsApart ==
  \A c \in Actors :
    Len(accepted[c]) = 2 =>
      accepted[c][2] - accepted[c][1] >= chars[c].turnInterval

\* the tile a move in the given direction aims at
TargetTile(row, direction) ==
  CASE direction = "north" -> <<row.x, row.y - 1>>
    [] direction = "south" -> <<row.x, row.y + 1>>
    [] direction = "east" -> <<row.x + 1, row.y>>
    [] direction = "west" -> <<row.x - 1, row.y>>

InsideWorld(tile) ==
  tile[1] >= 0 /\ tile[1] < Width /\ tile[2] >= 0 /\ tile[2] < Height

HoldsBlockingObject(tile) ==
  \E o \in Objects : o.blocking /\ o.x = tile[1] /\ o.y = tile[2]

\* C3: a move that passes the gate leaves the position unchanged when the target
\* tile is outside the world or holds a blocking object, and otherwise puts the
\* actor on the target tile (one tile in the requested direction) and awards 1 XP.
C3_Move ==
  [][\A c \in Actors, req \in MoveRequests :
       (req.direction \in Directions /\ GateOpen(c) /\ Submit(c, TokenOf(c), req)) =>
         LET target == TargetTile(chars[c], req.direction)
         IN IF InsideWorld(target) /\ ~HoldsBlockingObject(target)
              THEN /\ <<chars'[c].x, chars'[c].y>> = target
                   /\ Abs(chars'[c].x - chars[c].x) + Abs(chars'[c].y - chars[c].y) = 1
                   /\ chars'[c].xp = chars[c].xp + 1
                   /\ resp'.status = "ok"
              ELSE /\ chars'[c].x = chars[c].x
                   /\ chars'[c].y = chars[c].y
                   /\ chars'[c].xp = chars[c].xp
                   /\ resp'.status \in {"OutOfBounds", "Blocked"}]_vars

\* alice's first move took her one tile east and gave her 1 XP
C3_Witness ==
  /\ resp.actor = "alice" /\ resp.action = "move" /\ resp.status = "ok"
  /\ chars["alice"].x = 1 /\ chars["alice"].y = 0
  /\ chars["alice"].xp = 1

\* the only listener a talk of charId can get is other
OnlyListener(charId, other) ==
  /\ chars[other].isActive
  /\ Abs(chars[other].x - chars[charId].x) <= 2
  /\ Abs(chars[other].y - chars[charId].y) <= 2

\* C4: once a successful talk brings (alice, bob).recentExchanges to 15 at tick T
\* the row's cooldownUntilTick is T + 30 and only a later successful talk changes
\* it; a talk alice -> bob (gate passed, energy sufficient, bob the nearest actor
\* in range) at a tick before cooldownUntilTick is answered ConversationCooldown
\* with cooldownUntilTick - tick ticks left and changes nothing, and at a tick
\* from cooldownUntilTick on it succeeds.
C4_Cooldown ==
  [][LET row == rel[<<"alice", "bob">>]
         rowAfter == rel'[<<"alice", "bob">>]
     IN /\ \A req \in TalkRequests :
             (/\ req.message # ""
              /\ GateOpen("alice")
              /\ chars["alice"].energy >= 3
              /\ OnlyListener("alice", "bob")
              /\ Submit("alice", TokenOf("alice"), req)) =>
               IF tick < row.cooldownUntilTick
                 THEN /\ resp'.status = "ConversationCooldown"
                      /\ resp'.ticksLeft = row.cooldownUntilTick - tick
                      /\ NothingChanged
                 ELSE /\ resp'.status = "ok"
                      /\ resp'.listener = "bob"
                      /\ rowAfter.recentExchanges = row.recentExchanges + 1
        /\ (resp'.status = "ok" /\ resp'.action = "talk" /\ rowAfter.recentExchanges = 15)
             => rowAfter.cooldownUntilTick = tick + 30
        /\ rowAfter.cooldownUntilTick # row.cooldownUntilTick
             => resp'.status = "ok" /\ resp'.action = "talk"]_vars

\* the 16th talk succeeded: the pair had reached 15 exchanges and its cooldown
\* has expired
C4_Witness ==
  /\ resp.actor = "alice" /\ resp.action = "talk" /\ resp.status = "ok"
  /\ resp.exchangeCount = 16
  /\ rel[<<"alice", "bob">>].cooldownUntilTick = tick + 30

\* the number of first-meeting moments about other in the moments of charId
FirstMeetings(charId, other) ==
  Cardinality({i \in 1..Len(chars[charId].moments) :
                 chars[charId].moments[i].moment = FirstMeetingMoment(NameOf(other))})

\* C5: once two actors have talked, in either direction and however often, each
\* holds exactly one first-meeting moment about the other.
C5_OneFirstMeeting ==
  \A p \in Pairs :
    (rel[p].exists \/ rel[<<p[2], p[1]>>].exists) =>
      FirstMeetings(p[1], p[2]) = 1 /\ FirstMeetings(p[2], p[1]) = 1

\* C6: every actor's energy stays within 0..maxEnergy.
C6_EnergyInRange ==
  \A c \in Actors : chars[c].energy >= 0 /\ chars[c].energy <= chars[c].maxEnergy

\* C7: a talk (with a message, past the gate) of an actor whose stored energy is
\* 0, 1 or 2 is answered InsufficientEnergy and changes nothing.
C7_TooTired ==
  [][\A c \in Actors, req \in TalkRequests :
       (/\ req.message # ""
        /\ GateOpen(c)
        /\ chars[c].energy \in {0, 1, 2}
        /\ Submit(c, TokenOf(c), req)) =>
          resp'.status = "InsufficientEnergy" /\ NothingChanged]_vars

\* C8: no step lowers an actor's stored level.
C8_LevelMonotone ==
  [][\A c \in Actors : chars'[c].level >= chars[c].level]_vars

\* awards have taken alice to level 3
C8_Witness ==
  /\ resp.action = "award"
  /\ chars["alice"].level = 3
  /\ chars["alice"].xp >= 250

\* the total XP of the levels below level
RECURSIVE XpBelow(_)
XpBelow(level) ==
  IF level <= 1 THEN 0
  ELSE XpBelow(level - 1) + (100 * Pow(3, level - 2)) \div Pow(2, level - 2)

\* C9: calculateLevel(total) is the level L with
\* XpBelow(L) <= total < XpBelow(L + 1), with currentLevelXp = total - XpBelow(L)
\* and xpToNextLevel = xpForLevel(L); calculateLevel(250) is level 3 with 0 left.
C9_CalculateLevel ==
  lvl.done =>
    LET L == lvl.out.level
    IN /\ L >= 1
       /\ XpBelow(L) <= lvl.total
       /\ lvl.total < XpBelow(L + 1)
       /\ \A other \in 1..(L + 2) :
            (XpBelow(other) <= lvl.total /\ lvl.total < XpBelow(other + 1)) => other = L
       /\ lvl.out.currentLevelXp = lvl.total - XpBelow(L)
       /\ lvl.out.xpToNextLevel = XpBelow(L + 1) - XpBelow(L)
       /\ lvl.total = 100 + 150 => (L = 3 /\ lvl.out.currentLevelXp = 0)

\* calculateLevel(xpForLevel(1) + xpForLevel(2)) has been computed
C9_Witness ==
  /\ lvl.done
  /\ lvl.total = 250
  /\ lvl.out.level = 3
  /\ lvl.out.currentLevelXp = 0

\* C10: an award that raises the level leaves hp = maxHp = 100 + (level - 1) * 10;
\* an award that does not raise it leaves hp unchanged.
C10_HealOnLevelUp ==
  [][\A c \in Actors :
       IF chars'[c].level > chars[c].level
         THEN /\ chars'[c].hp = chars'[c].maxHp
              /\ chars'[c].maxHp = 100 + (chars'[c].level - 1) * 10
         ELSE chars'[c].hp = chars[c].hp]_vars

\* an award has just taken alice to level 2, healed to the new maximum
C10_Witness ==
  /\ resp.action = "award"
  /\ Len(bcast) = 1 /\ bcast[1].event = "level_up"
  /\ chars["alice"].level = 2
  /\ chars["alice"].hp = 110

\* the answers of the handler that reject an action
Rejections ==
  {"NotYourTurn", "InvalidDirection", "OutOfBounds", "Blocked", "NoTargetNearby",
   "InsufficientEnergy", "ConversationCooldown", "UnknownActionKind",
   "MessageRequired"}

\* C11: a submission that is rejected (any of the nine rejections) leaves the
\* durable store as it was, the actor's lastActionTick included, and appends and
\* publishes nothing.
C11_RejectionsWriteNothing ==
  [][\A c \in Actors :
       Handled(c) =>
         /\ resp'.status \in Rejections \cup {"ok"}
         /\ resp'.status \in Rejections =>
              NothingChanged /\ chars'[c].lastActionTick = chars[c].lastActionTick]_vars

\* bob's talk to alice was turned away by the cooldown of the pair
C11_Witness ==
  /\ resp.actor = "bob" /\ resp.action = "talk"
  /\ resp.status = "ConversationCooldown"
  /\ resp.ticksLeft = rel[<<"bob", "alice">>].cooldownUntilTick - tick
  /\ resp.ticksLeft > 0

\* the statements of an accepted request, all run, leave the store the handler
\* run as one step leaves
WritesAgree ==
  [][\A c \in Actors, req \in FaultyRequests :
       (GateOpen(c) /\ Submit(c, TokenOf(c), req) /\ resp'.status = "ok") =>
         \E l \in {resp'.listener} :
           LET ws == WritesOf(c, req, l)
               st == RunWrites([chars |-> chars, rel |-> rel, logged |-> <<>>],
                               ws, Len(ws), tick)
           IN /\ Len(ws) > 0 /\ Len(ws) <= MaxWrites
              /\ st.chars = chars'
              /\ st.rel = rel'
              /\ st.logged = logged']_vars

\* C12: when the durable store fails a statement of an accepted action (the
\* handler answers 500), none of the action's earlier writes remain: the store
\* is as before the request.
C12_AllOrNothing ==
  [][resp'.status = "ServerError" =>
       /\ chars' = chars
       /\ rel' = rel
       /\ logged' = <<>>]_vars

\* C13: a clock tick on which one maintenance statement fails still advances
\* the tick and performs every other maintenance step due on that tick (day/night
\* update, energy regeneration, fatigue decay, ambient event).
C13_StepsIsolated ==
  [][(resp'.action = "tick" /\ resp'.status # "none") =>
       LET t == tick + 1
           failed == resp'.status
       IN /\ tick' = t
          /\ failed \notin {"isNight", "transitionLog"} => isNight' = shouldBeNight(t)
          /\ (failed # "regen" /\ t % 10 = 0) => chars' = Regen(chars, t)
          /\ (failed # "decay" /\ t % 50 = 0) => rel' = Decay(rel)
          /\ (failed # "event" /\ t % 100 = 0) =>
               \E i \in 1..Len(bcast') : bcast'[i].event = "event"]_vars

\* C14: personality, originStory and traits of a registered character are the
\* same after every step of the server.
C14_PermanentTraits ==
  [][\A c \in DOMAIN chars :
       /\ c \in DOMAIN chars'
       /\ chars'[c].personality = chars[c].personality
       /\ chars'[c].originStory = chars[c].originStory
       /\ chars'[c].traits = chars[c].traits]_vars

\* C15: the world tick never decreases: a run of the world clock raises it by
\* exactly 1, and a registration, a settings update or an action submission
\* leaves it as it is.
C15_TickMonotone ==
  [][/\ tick' >= tick
     /\ resp'.action = "tick" => tick' = tick + 1
     /\ resp'.action # "tick" => tick' = tick]_vars

\* the clock has run, bob has registered after it and talked to alice
C15_Witness ==
  /\ tick = SettingsTicks
  /\ "bob" \in DOMAIN chars
  /\ resp.actor = "bob" /\ resp.action = "talk" /\ resp.status = "ok"

\* the day_night events among the events of the last step
DayNightEvents(events) == {i \in 1..Len(events) : events[i].event = "day_night"}

\* C16: after a completed clock tick isNight = (tick mod (dayLength + nightLength)
\* >= dayLength), and the tick broadcasts a day_night event exactly when it
\* changes isNight, and then only one.
C16_DayNight ==
  [][(resp'.action = "tick" /\ resp'.status = "none") =>
       /\ isNight' = ((tick' % (200 + 50)) >= 200)
       /\ (DayNightEvents(bcast') # {}) <=> (isNight' # isNight)
       /\ Cardinality(DayNightEvents(bcast')) <= 1
       /\ \A i \in DayNightEvents(bcast') : bcast'[i].isNight = isNight']_vars

\* night has just fallen for the first time, at tick 200
C16_Witness ==
  /\ tick = 200
  /\ isNight
  /\ resp.action = "tick"
  /\ DayNightEvents(bcast) # {}

\* C17: a successful talk gives the speaker 20 XP on the first meeting of the
\* ordered pair, otherwise 5 when recentExchanges after the increment is 1..5,
\* 2 when it is 6..10 and 0 beyond 10; an actor with xp 0 that moved once and
\* then talks to a new actor has xp 21.
C17_TalkXpSchedule ==
  [][\A c \in Actors :
       (resp'.actor = c /\ resp'.action = "talk" /\ resp'.status = "ok") =>
         LET pair == <<c, resp'.listener>>
             first == ~rel[pair].exists
             n == rel'[pair].recentExchanges
             gained == chars'[c].xp - chars[c].xp
         IN /\ gained = (IF first THEN 20
                          ELSE IF n >= 1 /\ n <= 5 THEN 5
                          ELSE IF n >= 6 /\ n <= 10 THEN 2
                          ELSE 0)
            /\ resp'.xpGained = gained
            /\ (first /\ chars[c].xp = 1) => chars'[c].xp = 21]_vars

\* alice moved once and then talked to bob for the first time: xp 21
C17_Witness ==
  /\ resp.actor = "alice" /\ resp.action = "talk" /\ resp.status = "ok"
  /\ chars["alice"].x = 1
  /\ chars["alice"].xp = 21
  /\ rel[<<"alice", "bob">>].interactions = 1

\* C18: a successful examine gives the actor the examine XP (2) in the simpler
\* server variant and no XP in the richer variant.
C18_ExamineXp ==
  [][\A c \in Actors :
       (resp'.actor = c /\ resp'.status = "ok") =>
         /\ resp'.action = "examineSimple" => chars'[c].xp = chars[c].xp + 2
         /\ resp'.action = "examine" => chars'[c].xp = chars[c].xp]_vars

\* C19: a successful move, talk, examine or interact stamps the actor's
\* lastActionTick with the current tick, awards XP through the leveling engine
\* (a talk beyond 10 recent exchanges is worth 0) and pushes an event of the
\* action to the broadcast channel.
C19_StampAwardBroadcast ==
  [][\A c \in Actors :
       (/\ resp'.actor = c
        /\ resp'.status = "ok"
        /\ resp'.action \in {"move", "talk", "examine", "interact"}) =>
         /\ chars'[c].lastActionTick = tick
         /\ \/ chars'[c].xp > chars[c].xp
            \/ resp'.action = "talk" /\ resp'.exchangeCount > 10
         /\ \E i \in 1..Len(bcast') :
              bcast'[i].event \in {"move", "talk", "examine", "interact", "rest"}]_vars

\* C20: missed turns are not banked: an accepted action is stamped with the tick
\* at which it is accepted, however long the actor was idle, and every later
\* submission is answered NotYourTurn while fewer than turnInterval ticks have
\* passed since that stamp.
C20_NoBankedTurns ==
  [][\A c \in Actors :
       Handled(c) =>
         /\ resp'.status = "ok" => chars'[c].lastActionTick = tick
         /\ tick - chars[c].lastActionTick < chars[c].turnInterval =>
              resp'.status = "NotYourTurn" /\ NothingChanged]_vars

\* alice (turn interval 1) let tick 1 pass, moved at tick 2 and was then turned
\* away in the same tick
C20_Witness ==
  /\ tick = 2
  /\ resp.actor = "alice" /\ resp.status = "NotYourTurn"
  /\ chars["alice"].turnInterval = 1
  /\ chars["alice"].lastActionTick = 2
  /\ chars["alice"].xp = 1 /\ chars["alice"].x = 1

\* C21: no actor ever holds more than 50 significant moments, and an append
\* puts the new moment last behind the earlier ones in their order, the
\* oldest of them dropped when there were 50 already.
C21_MomentsCapped ==
  [][\A c \in Actors :
       LET old == chars[c].moments
           new == chars'[c].moments
       IN /\ Len(old) <= MaxMoments
          /\ Len(new) <= MaxMoments
          /\ (resp'.action = "moment" /\ resp'.actor = c) =>
                /\ Len(new) = Min(Len(old) + 1, MaxMoments)
                /\ new[Len(new)] = [tick |-> tick, category |-> "social",
                                    moment |-> FirstMeetingMoment(AboutOf(c))]
                /\ SubSeq(new, 1, Len(new) - 1) =
                     (IF Len(old) < MaxMoments THEN old ELSE Tail(old))]_vars

\* a full sequence has taken one more moment and lost its oldest
C21_Witness ==
  /\ resp.action = "moment"
  /\ Len(chars[resp.actor].moments) = MaxMoments
  /\ chars[resp.actor].moments[MaxMoments].tick = tick
  /\ chars[resp.actor].moments[1].tick = tick - MaxMoments + 1
  /\ tick % EventEvery >= MaxMoments

\* C22: the life story is never longer than 5000 after an
\* addSignificantMoment call; a summary that takes it past 5000 leaves its
\* last 4000.
C22_LifeStoryCapped ==
  [][\A c \in Actors :
       /\ chars'[c].lifeStory <= StoryCap
       /\ (resp'.action = "moment" /\ resp'.actor = c
              /\ Len(chars'[c].moments) % StoryEvery = 0) =>
            LET grown == Grown(chars[c].lifeStory, chars'[c].moments)
            IN chars'[c].lifeStory = IF grown > StoryCap THEN StoryKeep ELSE grown]_vars

\* a summary has just taken a life story past 5000 and cut it to 4000
C22_Witness ==
  /\ resp.action = "moment"
  /\ Len(chars[resp.actor].moments) % StoryEvery = 0
  /\ chars[resp.actor].lifeStory = StoryKeep

\* the object of the interact the last step performed, from its broadcast
Interacted ==
  {o \in Objects : \E i \in 1..Len(bcast') :
     bcast'[i].event \in {"rest", "interact"} /\ bcast'[i].object = o.id}

\* C23: a successful interact on an interactable object within 2 tiles whose
\* name contains campfire, cottage or pond raises the energy by 50 (cottage)
\* or 30 up to maxEnergy and awards 2 XP; on any other interactable object
\* it keeps the energy, returns the object's interactResult and awards 10 XP.
C23_Interact ==
  [][(resp'.action = "interact" /\ resp'.status = "ok") =>
       LET c == resp'.actor
           me == chars[c]
           after == chars'[c]
       IN /\ Cardinality(Interacted) = 1
          /\ \A o \in Interacted :
               /\ o.canInteract
               /\ Abs(o.x - me.x) <= 2 /\ Abs(o.y - me.y) <= 2
               /\ IF includes(o.lname, cottageText)
                    THEN after.energy = Min(me.maxEnergy, me.energy + 50)
                           /\ after.xp = me.xp + 2
                  ELSE IF includes(o.lname, campfireText) \/ includes(o.lname, pondText)
                    THEN after.energy = Min(me.maxEnergy, me.energy + 30)
                           /\ after.xp = me.xp + 2
                  ELSE /\ after.energy = me.energy
                       /\ resp'.result = o.interactResult
                       /\ after.xp = me.xp + 10]_vars

\* a tired actor has rested at the cottage and gained 50 energy
C23_Witness ==
  /\ resp.action = "interact" /\ resp.status = "ok"
  /\ \E i \in 1..Len(bcast) : bcast[i].event = "rest" /\ bcast[i].object = "house1"
  /\ chars[resp.actor].energy = 53

\* C24: on a tick divisible by 10 every actor idle for at least 20 ticks
\* (tick - lastActionTick >= 20) gets energy min(maxEnergy, energy + 5) and
\* every other actor keeps its energy; on other ticks the clock changes no
\* actor's energy.
C24_Regen ==
  [][resp'.action = "tick" =>
       \A c \in DOMAIN chars :
         chars'[c].energy =
           IF tick' % 10 = 0 /\ tick' - chars[c].lastActionTick >= 20
             THEN Min(chars[c].maxEnergy, chars[c].energy + 5)
             ELSE chars[c].energy]_vars

\* C25: a successful talk A->B sets (A,B).recentExchanges to its earlier value
\* plus 1 (1 on a first meeting) and (A,B).cooldownUntilTick to tick + 30 when
\* the new count is at least 15 and to 0 otherwise.
C25_ExchangeCount ==
  [][(resp'.action = "talk" /\ resp'.status = "ok") =>
       LET p == <<resp'.actor, resp'.listener>>
           count == IF rel[p].exists THEN rel[p].recentExchanges + 1 ELSE 1
       IN /\ rel'[p].exists
          /\ rel'[p].recentExchanges = count
          /\ rel'[p].cooldownUntilTick = IF count >= 15 THEN tick + 30 ELSE 0]_vars

\* the fifteenth of 15 successive talks with no decay in between
C25_Witness ==
  /\ resp.action = "talk" /\ resp.status = "ok"
  /\ rel[<<resp.actor, resp.listener>>].interactions = 15
  /\ rel[<<resp.actor, resp.listener>>].recentExchanges = 15
  /\ rel[<<resp.actor, resp.listener>>].cooldownUntilTick = tick + 30

\* C26: on a tick divisible by 50 every relationship row with
\* recentExchanges > 0 gets max(0, recentExchanges - 3), in cooldown or not,
\* and nothing else of any row changes; on other ticks the clock changes no
\* relationship row.
C26_Decay ==
  [][resp'.action = "tick" =>
       \A p \in Pairs :
         rel'[p] =
           IF tick' % 50 = 0 /\ rel[p].exists /\ rel[p].recentExchanges > 0
             THEN [rel[p] EXCEPT !.recentExchanges =
                                    IF rel[p].recentExchanges - 3 < 0
                                      THEN 0 ELSE rel[p].recentExchanges - 3]
             ELSE rel[p]]_vars

\* the decay has just lowered the count of a pair that is still in cooldown
C26_Witness ==
  /\ resp.action = "tick"
  /\ tick % 50 = 0
  /\ \E p \in Pairs : /\ rel[p].recentExchanges = 12
                       /\ rel[p].cooldownUntilTick > tick
                       /\ rel[p].sentiment = 19 /\ rel[p].interactions = 15

\* C27: a successful talk A->B changes no relationship row but (A,B), and a
\* talk is rejected for cooldown only when its own ordered pair is in
\* cooldown, whatever the row of the opposite direction holds.
C27_OrderedPair ==
  [][/\ (resp'.action = "talk" /\ resp'.status = "ok") =>
          \A q \in Pairs \ {<<resp'.actor, resp'.listener>>} : rel'[q] = rel[q]
     /\ (resp'.action = "talk" /\ resp'.status = "ConversationCooldown") =>
          rel[<<resp'.actor, resp'.listener>>].cooldownUntilTick > tick]_vars

\* a talk has succeeded while the opposite direction is in cooldown with a
\* count at the ceiling or above
C27_Witness ==
  /\ resp.action = "talk" /\ resp.status = "ok"
  /\ rel[<<resp.listener, resp.actor>>].cooldownUntilTick > tick
  /\ rel[<<resp.listener, resp.actor>>].recentExchanges >= 12

\* C28: sentiment never exceeds 100; the first successful talk of an ordered
\* pair creates its row with sentiment 5 and interactions 1, every later one
\* adds 1 to interactions and sets sentiment to min(100, sentiment + 1), and
\* nothing else changes either of them.
C28_Sentiment ==
  [][\A p \in Pairs :
       /\ rel[p].sentiment <= 100
       /\ rel'[p].sentiment <= 100
       /\ IF resp'.action = "talk" /\ resp'.status = "ok"
              /\ p = <<resp'.actor, resp'.listener>>
            THEN IF rel[p].exists
                   THEN /\ rel'[p].interactions = rel[p].interactions + 1
                        /\ rel'[p].sentiment =
                             (IF rel[p].sentiment + 1 > 100 THEN 100
                                                           ELSE rel[p].sentiment + 1)
                   ELSE /\ rel'[p].interactions = 1
                        /\ rel'[p].sentiment = 5
            ELSE /\ rel'[p].interactions = rel[p].interactions
                 /\ rel'[p].sentiment = rel[p].sentiment]_vars

\* a talk has left the sentiment at its ceiling a second time
C28_Witness ==
  /\ resp.action = "talk" /\ resp.status = "ok"
  /\ resp.actor = "alice"
  /\ rel[<<"alice", "bob">>].sentiment = 100
  /\ rel[<<"alice", "bob">>].interactions = 97

\* the active characters other than s within 2 tiles of s in x and in y
Candidates(s) ==
  {d \in (DOMAIN chars) \ {s} :
     /\ chars[d].isActive
     /\ Abs(chars[d].x - chars[s].x) <= 2
     /\ Abs(chars[d].y - chars[s].y) <= 2}

\* the square of the Euclidean distance between two characters
Apart(a, b) ==
  (chars[a].x - chars[b].x) * (chars[a].x - chars[b].x)
    + (chars[a].y - chars[b].y) * (chars[a].y - chars[b].y)

\* C29: the listener of a successful talk is an active actor other than the
\* speaker within 2 tiles in x and in y, none of the others of that kind
\* being strictly closer; a talk is rejected as NoTargetNearby exactly when
\* it got as far as the search and there is no such actor.
C29_NearestListener ==
  [][resp'.action = "talk" =>
       LET s == resp'.actor
       IN /\ resp'.status = "ok" =>
               /\ resp'.listener \in Candidates(s)
               /\ \A d \in Candidates(s) : Apart(d, s) >= Apart(resp'.listener, s)
          /\ resp'.status = "NoTargetNearby" => Candidates(s) = {}
          /\ Candidates(s) = {} =>
               resp'.status \in {"NoTargetNearby", "NotYourTurn", "MessageRequired",
                                 "InsufficientEnergy", "InvalidCharacterOrToken"}]_vars

\* a talk has gone to the nearest of two active characters in range, an
\* inactive one standing closer than the listener
C29_Witness ==
  /\ resp.action = "talk" /\ resp.status = "ok"
  /\ \E d \in Candidates(resp.actor) : Apart(d, resp.actor) > Apart(resp.listener, resp.actor)
  /\ \E e \in DOMAIN chars :
       /\ e # resp.actor
       /\ ~chars[e].isActive
       /\ Apart(e, resp.actor) < Apart(resp.listener, resp.actor)

\* the rows of the world, of the relationships and of every character but c
\* keep their values, and one activity-log row is appended
OnlyLogged(c) ==
  /\ tick' = tick
  /\ isNight' = isNight
  /\ rel' = rel
  /\ \A d \in (DOMAIN chars) \ {c} : chars'[d] = chars[d]
  /\ Len(logged') = 1
  /\ logged'[1].table = "activity_log"

C31_TurnIntervalPositive ==
  \A c \in DOMAIN chars : chars[c].turnInterval >= 1

\* C32: every character stands inside [0, width) x [0, height) on a tile
\* that holds no blocking object, after registrations and moves.
C32_PositionValid ==
  \A c \in DOMAIN chars :
    /\ chars[c].x >= 0 /\ chars[c].x < Width
    /\ chars[c].y >= 0 /\ chars[c].y < Height
    /\ ~\E o \in Objects : o.blocking /\ o.x = chars[c].x /\ o.y = chars[c].y

\* a registered character has moved to a tile next to the river
C32_Witness ==
  /\ "bob" \in DOMAIN chars
  /\ resp.action = "move" /\ resp.status = "ok" /\ resp.actor = "bob"
  /\ \E o \in Objects : o.blocking /\ Abs(o.x - chars["bob"].x) + Abs(o.y - chars["bob"].y) = 1

\* the number of moments an actor has recorded once the call of the current
\* tick is made: one per tick since the starting tick
Recorded == (tick % EventEvery) + 1

\* C33: the life story is extended only on every 10th recorded moment, also
\* once the sequence holds 50 entries.
C33_EveryTenth ==
  [][\A c \in Actors :
       (resp'.action = "moment" /\ resp'.actor = c
          /\ chars'[c].lifeStory # chars[c].lifeStory) => Recorded % 10 = 0]_vars

\* C34: no two registered characters have names that are equal ignoring
\* case, for any interleaving of registration requests.
C34_UniqueNames ==
  \A a \in DOMAIN chars, b \in DOMAIN chars :
    a # b => Lower(a[1]) # Lower(b[1])

\* C35: when the first talks of two actors to the same listener overlap, the
\* listener's moments afterwards hold the first-meeting moment about each of
\* them.
C35_NoMomentLost ==
  (\A s \in Slots : reqs[s].pc = "idle") =>
    \A speaker \in (DOMAIN chars) \ {"bob"} :
      rel[<<speaker, "bob">>].exists =>
        \E i \in 1..Len(chars["bob"].moments) :
          chars["bob"].moments[i].moment = FirstMeetingMoment(NameOf(speaker))

\* C36: for any interleaving, an actor's stored xp never decreases and every
\* award adds its amount to the stored xp, so that the xp is the sum of the
\* amounts awarded.
C36_NoAwardLost ==
  [][\A c \in Actors :
       /\ chars'[c].xp >= chars[c].xp
       /\ (resp'.action = "award" /\ resp'.actor = c) =>
            chars'[c].xp = chars[c].xp + resp'.xpGained]_vars

\* C37: when the fatigue decay runs between a talk's reading of
\* (A,B).recentExchanges = old and its write of the row, the row afterwards
\* holds max(0, old - 3) + 1.
C37_DecayNotLost ==
  [][(reqs[1].pc = "write" /\ reqs'[1].pc = "idle" /\ resp'.status = "ok") =>
       LET p == <<reqs[1].actor, reqs[1].listener>>
           old == reqs[1].relCheck.recentExchanges
           decayed == IF old - 3 < 0 THEN 0 ELSE old - 3
       IN (old > 0 /\ rel[p].recentExchanges = decayed) =>
            rel'[p].recentExchanges = decayed + 1]_vars

\* C38: recentExchanges of an ordered pair never exceeds the ceiling of 15
\* when clock ticks and talks are processed one at a time.
C38_CeilingHolds ==
  \A p \in Pairs : rel[p].recentExchanges <= 15

\* C39: with the clock ticking, a NotYourTurn rejection is never permanent:
\* the gate opens again for the rejected actor, and it is open at every tick
\* from lastActionTick + turnInterval on.
C39_GateReopens ==
  /\ \A c \in Actors :
       (resp.status = "NotYourTurn" /\ resp.actor = c) ~> canAct(c)
  /\ [](\A c \in Actors :
          tick >= chars[c].lastActionTick + chars[c].turnInterval => canAct(c))

\* bob, rejected and accepted before, has been accepted again two ticks
\* after his last action
C39_Witness ==
  /\ resp.actor = "bob" /\ resp.status = "ok"
  /\ chars["bob"].lastActionTick = 4
  /\ chars["bob"].xp = 2

\* C40: with the clock ticking and no further talk A->B, recentExchanges of
\* (A,B) eventually reaches 0 and stays 0, and any cooldown on (A,B)
\* eventually expires.
C40_CoolsDown ==
  \A p \in Pairs :
    /\ <>[](rel[p].recentExchanges = 0)
    /\ <>[](tick >= rel[p].cooldownUntilTick)

\* the count of the pair that was at the ceiling and in cooldown has come
\* down to 0 and its cooldown is over
C40_Witness ==
  /\ resp.action = "tick"
  /\ rel[<<"bob", "alice">>].interactions = 15
  /\ rel[<<"bob", "alice">>].recentExchanges = 0
  /\ rel[<<"bob", "alice">>].cooldownUntilTick > 0
  /\ tick >= rel[<<"bob", "alice">>].cooldownUntilTick

====
